---- MODULE Spec2Model ----
(***************************************************************************)
(* Kanban board: the persistent ordering store (api/routes: projects,      *)
(* columns, tasks over the SQLite schema), the client ordering cache       *)
(* (store/taskStore) and the drag reconciliation engine (pages/Home).      *)
(*                                                                         *)
(* Eight specifications share the variables:                               *)
(*   Spec       the server: one action per HTTP handler, applied to the    *)
(*              tables a request can find;                                 *)
(*   SpecDrag   the client: handleDragStart / handleDragEnd on the cache,  *)
(*              with the synchronous part of the store methods they call;  *)
(*   SpecClient the client store over the network: each async method up to *)
(*              its await, the server's answer or the network's failure,   *)
(*              and the rest of the method, with calls interleaved;        *)
(*   SpecTabs   two browser tabs that each drop a card on the same loaded  *)
(*              view, and the server handling their reorder batches;       *)
(*   SpecAttach uploadAttachment / deleteAttachment of the store over the  *)
(*              attachments routes;                                        *)
(*   SpecCollision  the drop-target resolution of a drag in progress       *)
(*              (collisionDetectionStrategy);                              *)
(*   SpecDelete deleteProject of the store over DELETE /api/projects/:id;  *)
(*   SpecSort   the sort-by-priority menu entry of a column, with the      *)
(*              reorderTasks it calls.                                     *)
(***************************************************************************)
EXTENDS Integers, Sequences, FiniteSets, TLC

(***************************************************************************)
(* Bounds of the model.                                                    *)
(***************************************************************************)
\* cached tasks at the start of a drag session: ids 1..n, n <= MaxTasks
MaxTasks == 3
\* order_index values drawn for cached tasks and for request entries: 0..MaxIdx
MaxIdx == 2
\* cached projects of the drag session
NumProjects == 3
\* rows of the table under observation in the store: ids 1..MaxRows
MaxRows == 2
\* entries of a reorder request
MaxBatch == 2
\* users registered through POST /api/auth/register, besides the seeded one
Registered == 1

(***************************************************************************)
(* Program constants.                                                      *)
(***************************************************************************)
\* db.ts seeds one user (admin) on a fresh database
SeededUsers == 1
\* POST /api/projects seeds three columns, order_index 0, 1, 2
DefaultColumns == 3
\* POST /api/tasks: priority = 3 when the body has none
DefaultPriority == 3
\* CHECK(priority BETWEEN 1 AND 5)
MinPriority == 1
MaxPriority == 5
\* texts (names, titles, descriptions) are numbered: 1 is the text an entity was
\* created with, 2 is the text an update carries
FirstText == 1
NewText == 2

VARIABLES
    \* ---- client: useTaskStore state (taskStore.ts) ----
    projects,      \* Project[]  : sequence of [id]
    columns,       \* Column[]   : sequence of [id, project_id, order_index]
    tasks,         \* Task[]     : sequence of [id, column_id, order_index]
    currentProjectId, \* number | null
    error,         \* string | null
    attachments,   \* Record<taskId, Attachment[]> : the lists the task dialog has fetched
    \* ---- client: the store method calls awaiting a response, and those settled ----
    calls,         \* sequence of [kind, arg, items, prev, x, y, stage, atCall, atSend]
    \* ---- client: Home component state and the DndContext ----
    active,        \* event.active.id of the gesture in progress, or NoDrag
    activeId,      \* useState activeId
    activeType,    \* useState activeType
    \* ---- client: observation of the last UI event ----
    ev,            \* the last event handled: [type, active, over], for a collision
                   \* detection with its arguments and the collisions it returned
    before,        \* the cache as it was when that event was delivered
    emitted,       \* the requests that event's handler issued, in order
    \* ---- server: the SQLite tables (schema.sql, db.ts) ----
    dbProjects,    \* set of rows [id, user_id, order_index, created_at, name]
    dbColumns,     \* set of rows [id, project_id, order_index]
    dbTasks,       \* set of rows [id, column_id, order_index, created_at,
                   \*              title, description, priority]
    dbAttachments, \* set of rows [id, task_id, file_path]
    uploads,       \* the files under UPLOAD_DIR: set of [dir, name]
    seq,           \* sqlite_sequence: the last AUTOINCREMENT id of each table
    now,           \* CURRENT_TIMESTAMP, in seconds
    \* ---- server: observation of the last request ----
    req,           \* the last request handled: [op, user, id, items]
    res,           \* its response: [status, success, data]
    dbBefore       \* the tables as they were when that request arrived

asyncVars == <<currentProjectId, error, attachments, calls>>
clientVars == <<projects, columns, tasks, active, activeId, activeType, ev, before, emitted,
                asyncVars>>
storeVars == <<dbProjects, dbColumns, dbTasks, dbAttachments, uploads, seq, now, req, res,
              dbBefore>>
vars == <<clientVars, storeVars>>

\* null / undefined where a number is expected (ids are positive integers)
Null == 0
\* null where a type tag is expected
NoType == "null"
NoDrag == <<"none", 0>>

(***************************************************************************)
(* JavaScript array helpers, 0-based like the source.                      *)
(***************************************************************************)
\* Array.prototype.findIndex for "element whose id is `id`": index or -1
FindIndexById(arr, id) ==
    IF \E i \in 1..Len(arr) : arr[i].id = id
    THEN (CHOOSE i \in 1..Len(arr) : arr[i].id = id /\ \A j \in 1..(i-1) : arr[j].id # id) - 1
    ELSE -1

\* Array.prototype.find for "element whose id is `id`": <<element>> or <<>> (undefined)
FindById(arr, id) ==
    LET k == FindIndexById(arr, id) IN IF k = -1 THEN <<>> ELSE <<arr[k+1]>>

\* the start index Array.prototype.splice uses: negative counts from the end, clamped
SpliceStart(len, start) ==
    IF start < 0 THEN (IF len + start < 0 THEN 0 ELSE len + start)
    ELSE IF start > len THEN len ELSE start

\* arr.splice(start, 0, item): the array after the insertion
SpliceInsert(arr, start, item) ==
    LET s == SpliceStart(Len(arr), start)
    IN  SubSeq(arr, 1, s) \o <<item>> \o SubSeq(arr, s + 1, Len(arr))

\* arr.splice(start, 1): <<removed elements, remaining array>>
SpliceRemove(arr, start) ==
    LET s == SpliceStart(Len(arr), start)
    IN  IF s < Len(arr)
        THEN <<  <<arr[s+1]>>, SubSeq(arr, 1, s) \o SubSeq(arr, s + 2, Len(arr)) >>
        ELSE <<  <<>>, arr >>

\* arr.sort((a, b) => a.order_index - b.order_index): stable insertion by order_index
RECURSIVE InsertByOrder(_, _)
InsertByOrder(sorted, x) ==
    IF sorted = <<>> THEN <<x>>
    ELSE IF sorted[Len(sorted)].order_index <= x.order_index
         THEN Append(sorted, x)
         ELSE Append(InsertByOrder(SubSeq(sorted, 1, Len(sorted) - 1), x), sorted[Len(sorted)])

RECURSIVE SortByOrderIndex(_)
SortByOrderIndex(arr) ==
    IF arr = <<>> THEN <<>>
    ELSE InsertByOrder(SortByOrderIndex(SubSeq(arr, 1, Len(arr) - 1)), arr[Len(arr)])

\* mutant of Reindex: the map keeps each element's order_index
ReindexKept(arr) == arr

\* arr.map((x, index) => ({...x, order_index: index}))
Reindex(arr) == [i \in 1..Len(arr) |-> [arr[i] EXCEPT !.order_index = i - 1]]

\* mutant of ArrayMove: the two elements exchange places
ArraySwap(arr, from, to) ==
    IF from < 0 \/ to < 0 THEN <<TRUE, arr>>
    ELSE <<TRUE, [arr EXCEPT ![from + 1] = arr[to + 1], ![to + 1] = arr[from + 1]]>>

\* @dnd-kit/sortable arrayMove(array, from, to):
\*   newArray.splice(to < 0 ? newArray.length + to : to, 0, newArray.splice(from, 1)[0])
\* The insertion index is computed before the removal.  Result: <<ok, array>>; ok is
\* FALSE when nothing was removed, so that `undefined` is inserted.
ArrayMove(arr, from, to) ==
    LET at  == IF to < 0 THEN Len(arr) + to ELSE to
        rem == SpliceRemove(arr, from)
    IN  IF rem[1] = <<>> THEN <<FALSE, arr>>
        ELSE <<TRUE, SpliceInsert(rem[2], at, rem[1][1])>>

(***************************************************************************)
(* Drag identifiers: `proj-7`, `col-3`, `task-12` are modelled as the pair *)
(* <<prefix, number>>; startsWith tests the prefix, Number(replace(..))    *)
(* takes the number, and two identifiers are equal iff both parts are.     *)
(***************************************************************************)
DragId(prefix, n) == <<prefix, n>>
StartsWith(dragId, prefix) == dragId[1] = prefix
IdNumber(dragId) == dragId[2]
NoTarget == <<"none", 0>>

TaskRef(t) == [id |-> t.id, column_id |-> t.column_id, order_index |-> t.order_index]
Request(op, payload) == [op |-> op, payload |-> payload]

(***************************************************************************)
(* taskStore: the synchronous part of the reorder methods, up to the       *)
(* await of the request.  Each yields the new cache slice and the request. *)
(***************************************************************************)
\* mutant of OptimisticProjects: the project list is left as it is until the response
OptimisticProjectsKept(currentProjects, projectIds) == currentProjects

\* reorderProjects(projectIds): the optimistic project list
OptimisticProjects(currentProjects, projectIds) ==
    LET found == [i \in 1..Len(projectIds) |-> FindById(currentProjects, projectIds[i])]
        RECURSIVE Flat(_)
        Flat(k) == IF k = 0 THEN <<>> ELSE Flat(k - 1) \o found[k]
    IN  Flat(Len(projectIds))

(***************************************************************************)
(* Home.handleDragEnd, by branch.  Each operator yields                    *)
(*   [projects, columns, tasks, emitted, reset]                            *)
(* reset is "both" when the handler reaches its last two lines, "id" when  *)
(* it returns after setActiveId(null) only, "none" when it throws.         *)
(***************************************************************************)
Outcome(p, c, t, e, r) == [projects |-> p, columns |-> c, tasks |-> t, emitted |-> e, reset |-> r]
NoChange(r) == Outcome(projects, columns, tasks, <<>>, r)

DropProject(act, over) ==
    IF act = over THEN NoChange("both")
    ELSE LET oldIndex == FindIndexById(projects, IdNumber(act))
             newIndex == FindIndexById(projects, IdNumber(over))
             moved    == ArrayMove(projects, oldIndex, newIndex)
         IN  IF ~moved[1] THEN NoChange("none")   \* newProjects.map(p => p.id) throws
             ELSE LET projectIds == [i \in 1..Len(moved[2]) |-> moved[2][i].id]
                  IN  Outcome(OptimisticProjects(projects, projectIds), columns, tasks,
                              << Request("reorderProjects", projectIds) >>, "both")

DropColumn(act, over) ==
    IF act = over THEN NoChange("both")
    ELSE LET oldIndex == FindIndexById(columns, IdNumber(act))
             newIndex == FindIndexById(columns, IdNumber(over))
             moved    == ArrayMove(columns, oldIndex, newIndex)
             newColumns == IF moved[1] THEN moved[2]
                           ELSE <<[id |-> Null, project_id |-> Null, order_index |-> 0]>>
             updatedColumns == Reindex(newColumns)
             updates == [i \in 1..Len(updatedColumns) |->
                            [id |-> updatedColumns[i].id,
                             order_index |-> updatedColumns[i].order_index]]
         IN  Outcome(projects, updatedColumns, tasks,
                     << Request("reorderColumns", updates) >>, "both")

\* `newIndex === null`: no insertion index was computed (findIndex never yields -1
\* for the dropped-on task, which is in the list it is searched in)
NoIndex == -1

\* mutant of DropTarget: a drop on a task inserts after it, a drop on a column first
DropTargetShifted(over) ==
    IF StartsWith(over, "col-") THEN <<IdNumber(over), 0>>
    ELSE IF StartsWith(over, "task-") /\ FindById(tasks, IdNumber(over)) # <<>>
    THEN LET c == FindById(tasks, IdNumber(over))[1].column_id
         IN  <<c, 1 + FindIndexById(
                        SortByOrderIndex(SelectSeq(tasks, LAMBDA t : t.column_id = c)),
                        IdNumber(over))>>
    ELSE <<Null, NoIndex>>

\* the destination column and insertion index of a task drop: <<targetColumnId, newIndex>>
DropTarget(over) ==
    IF StartsWith(over, "col-")
    THEN LET targetColumnId == IdNumber(over)
             tasksInColumn  == SelectSeq(tasks, LAMBDA t : t.column_id = targetColumnId)
         IN  <<targetColumnId, Len(tasksInColumn)>>
    ELSE IF StartsWith(over, "task-")
    THEN LET overTaskId == IdNumber(over)
             overTask   == FindById(tasks, overTaskId)
         IN  IF overTask = <<>> THEN <<Null, NoIndex>>
             ELSE LET targetColumnId == overTask[1].column_id
                      tasksInTargetColumn ==
                          SortByOrderIndex(SelectSeq(tasks, LAMBDA t : t.column_id = targetColumnId))
                  IN  <<targetColumnId, FindIndexById(tasksInTargetColumn, overTaskId)>>
    ELSE <<Null, NoIndex>>

\* the destination column's list after the drop, densely re-indexed
UpdatedTargetTasks(activeTask, targetColumnId, newIndex) ==
    LET targetTasks == SortByOrderIndex(
                          SelectSeq(tasks, LAMBDA t : t.column_id = targetColumnId /\ t.id # activeTask.id))
        at == IF newIndex = NoIndex THEN Len(targetTasks) ELSE newIndex
    IN  Reindex(SpliceInsert(targetTasks, at, [activeTask EXCEPT !.column_id = targetColumnId]))

\* mutant of OtherTasks: the tasks carried over are renumbered as well
OtherTasksRenumbered(aId, targetColumnId) ==
    [i \in 1..Len(SelectSeq(tasks, LAMBDA t : t.column_id # targetColumnId /\ t.id # aId)) |->
        [SelectSeq(tasks, LAMBDA t : t.column_id # targetColumnId /\ t.id # aId)[i]
            EXCEPT !.order_index = i - 1]]

\* mutant of OtherTasks: the dragged task is carried over as well
OtherTasksWithActive(aId, targetColumnId) ==
    SelectSeq(tasks, LAMBDA t : t.column_id # targetColumnId)

\* the tasks carried over unchanged: not in the destination column, not the dragged one
OtherTasks(aId, targetColumnId) ==
    SelectSeq(tasks, LAMBDA t : t.column_id # targetColumnId /\ t.id # aId)

DropTask(act, over) ==
    LET aId        == IdNumber(act)
        activeTask == FindById(tasks, aId)
    IN  IF activeTask = <<>> THEN NoChange("id")
        ELSE LET target == DropTarget(over)
                 targetColumnId == target[1]
             IN  IF targetColumnId = Null THEN NoChange("both")
                 ELSE LET updatedTargetTasks == UpdatedTargetTasks(activeTask[1], targetColumnId, target[2])
                          otherTasks == OtherTasks(aId, targetColumnId)
                          optimisticTasks == otherTasks \o updatedTargetTasks
                          updates == [i \in 1..Len(updatedTargetTasks) |-> TaskRef(updatedTargetTasks[i])]
                      IN  Outcome(projects, columns, optimisticTasks,
                                  << Request("reorderTasks", updates) >>, "both")

\* mutant of HandleDragEnd: the branches test the dragged identifier only
HandleDragEndAnyTarget(act, over) ==
    IF over = NoTarget THEN NoChange("both")
    ELSE IF StartsWith(act, "proj-") THEN DropProject(act, over)
    ELSE IF StartsWith(act, "col-") THEN DropColumn(act, over)
    ELSE IF StartsWith(act, "task-") THEN DropTask(act, over)
    ELSE NoChange("both")

HandleDragEnd(act, over) ==
    IF over = NoTarget THEN NoChange("both")
    ELSE IF StartsWith(act, "proj-") /\ StartsWith(over, "proj-") THEN DropProject(act, over)
    ELSE IF StartsWith(act, "col-") /\ StartsWith(over, "col-") THEN DropColumn(act, over)
    ELSE IF StartsWith(act, "task-") THEN DropTask(act, over)
    ELSE NoChange("both")

(***************************************************************************)
(* The drag session: the cache as fetched for a project with its three     *)
(* default columns and up to MaxTasks tasks, then one gesture.             *)
(***************************************************************************)
\* the identifiers a gesture can carry: every rendered project tab and column, and
\* every task id, rendered or no longer in the cache
ProjIds == 1..NumProjects
ColIds  == 1..DefaultColumns
TaskIds == 1..MaxTasks
DragIds == {DragId("proj-", n) : n \in ProjIds} \cup {DragId("col-", n) : n \in ColIds}
           \cup {DragId("task-", n) : n \in TaskIds}

Cache == [projects |-> projects, columns |-> columns, tasks |-> tasks]

(***************************************************************************)
(* The store.                                                              *)
(***************************************************************************)
DB == [projects |-> dbProjects, columns |-> dbColumns, tasks |-> dbTasks,
       attachments |-> dbAttachments]
\* a request: the caller, the id it names, whether the body holds an array, the
\* array, and whether the body holds a title (a name, for a project)
Req(op, user, id, isArray, items) ==
    [op |-> op, user |-> user, id |-> id, isArray |-> isArray, items |-> items,
     title |-> TRUE]
NoRequest == Req("none", Null, Null, TRUE, <<>>)
Response(status, data) == [status |-> status, success |-> status = 200, data |-> data]

\* a fresh database, as db.ts leaves it: the seeded user's default project, no column,
\* no task; no request handled
StoreIdle ==
    /\ dbProjects = {[id |-> 1, user_id |-> 1, order_index |-> 0, created_at |-> 0,
                       name |-> FirstText]}
    /\ dbColumns = {}
    /\ dbTasks = {}
    /\ dbAttachments = {}
    /\ uploads = {}
    /\ seq = [projects |-> 1, columns |-> 0, tasks |-> 0, attachments |-> 0]
    /\ now = 0
    /\ req = NoRequest
    /\ res = Response(200, <<>>)
    /\ dbBefore = DB

\* GET /api/tasks order of a set of task rows: order_index ASC, then newest first
RECURSIVE ListedOrder(_)
ListedOrder(rows) ==
    IF rows = {} THEN <<>>
    ELSE LET first == CHOOSE r \in rows : \A q \in rows :
                          \/ r.order_index < q.order_index
                          \/ r.order_index = q.order_index /\ r.id >= q.id
         IN  <<first>> \o ListedOrder(rows \ {first})

DragInit ==
    /\ projects = [i \in 1..NumProjects |-> [id |-> i]]
    /\ columns = [i \in 1..DefaultColumns |-> [id |-> i, project_id |-> 1, order_index |-> i - 1]]
    /\ \E n \in 0..MaxTasks :
         \E col \in [1..n -> 1..DefaultColumns], idx \in [1..n -> 0..MaxIdx] :
            tasks = ListedOrder({[id |-> i, column_id |-> col[i], order_index |-> idx[i]] : i \in 1..n})
    /\ active = NoDrag
    /\ activeId = Null
    /\ activeType = NoType
    /\ ev = [type |-> "none", active |-> NoDrag, over |-> NoTarget]
    /\ before = Cache
    /\ emitted = <<>>
    /\ currentProjectId = 1
    /\ error = Null
    /\ attachments = <<>>
    /\ calls = <<>>
    /\ StoreIdle

\* Home.handleDragStart.  A session is one gesture: handleDragEnd keeps no memory but
\* the cache, and DragInit ranges over the caches.
DragStart ==
    /\ active = NoDrag
    /\ ev.type = "none"
    /\ \E d \in DragIds :
         /\ active' = d
         /\ activeType' = (IF StartsWith(d, "col-") THEN "Column"
                           ELSE IF StartsWith(d, "task-") THEN "Task" ELSE "Project")
         /\ activeId' = IdNumber(d)
         /\ ev' = [type |-> "dragStart", active |-> d, over |-> NoTarget]
    /\ before' = Cache
    /\ emitted' = <<>>
    /\ UNCHANGED <<projects, columns, tasks>>
    /\ UNCHANGED <<asyncVars, storeVars>>

\* Home.handleDragEnd, with the store method it calls
DragEnd ==
    /\ active # NoDrag
    /\ \E over \in DragIds \cup {NoTarget} :
         LET out == HandleDragEnd(active, over)
         IN  /\ projects' = out.projects
             /\ columns' = out.columns
             /\ tasks' = out.tasks
             /\ emitted' = out.emitted
             /\ activeId' = (IF out.reset = "none" THEN activeId ELSE Null)
             /\ activeType' = (IF out.reset = "both" THEN NoType ELSE activeType)
             /\ ev' = [type |-> "dragEnd", active |-> active, over |-> over]
    /\ before' = Cache
    /\ active' = NoDrag
    /\ UNCHANGED <<asyncVars, storeVars>>

DragNext == DragStart \/ DragEnd

SpecDrag == DragInit /\ [][DragNext]_vars

(***************************************************************************)
(* Reading a cache: the order a column is rendered in (Home: filter by     *)
(* column_id, sort by order_index; equal indices keep their array order).  *)
(***************************************************************************)
PositionsIn(ts, c) == {i \in 1..Len(ts) : ts[i].column_id = c}

RECURSIVE OrderOfPositions(_, _)
OrderOfPositions(ts, pos) ==
    IF pos = {} THEN <<>>
    ELSE LET i == CHOOSE a \in pos : \A b \in pos :
                      \/ ts[a].order_index < ts[b].order_index
                      \/ ts[a].order_index = ts[b].order_index /\ a <= b
         IN  <<ts[i].id>> \o OrderOfPositions(ts, pos \ {i})

\* ids of column c's tasks, in rendered order
RenderedOrder(ts, c) == OrderOfPositions(ts, PositionsIn(ts, c))

Ids(arr) == [i \in 1..Len(arr) |-> arr[i].id]
Without(ids, x) == SelectSeq(ids, LAMBDA y : y # x)
IndexOf(ids, x) == CHOOSE i \in 1..Len(ids) : ids[i] = x
Has(arr, id) == \E i \in 1..Len(arr) : arr[i].id = id
Get(arr, id) == arr[CHOOSE i \in 1..Len(arr) : arr[i].id = id]
Distinct(ids) == \A i, j \in 1..Len(ids) : ids[i] = ids[j] => i = j

(***************************************************************************)
(* The cases of a drag-end, read off the event and the cache before it.    *)
(***************************************************************************)
DragEnded == ev.type = "dragEnd"
Dragged == IdNumber(ev.active)
DroppedOn == IdNumber(ev.over)
CacheUntouched == Cache = before
NothingEmitted == emitted = <<>>

\* a cached task dropped on a column, or on a cached task
TaskDropped ==
    /\ DragEnded
    /\ StartsWith(ev.active, "task-") /\ Has(before.tasks, Dragged)
    /\ \/ StartsWith(ev.over, "col-")
       \/ StartsWith(ev.over, "task-") /\ Has(before.tasks, DroppedOn)

\* the destination column of that drop
Destination ==
    IF StartsWith(ev.over, "col-") THEN DroppedOn ELSE Get(before.tasks, DroppedOn).column_id
Origin == Get(before.tasks, Dragged).column_id

BatchOf(op) == IF Len(emitted) = 1 /\ emitted[1].op = op THEN emitted[1].payload ELSE <<>>
OneBatch(op) == Len(emitted) = 1 /\ emitted[1].op = op

\* C1: a task drop resolved to column D leaves the tasks of D in the optimistic list,
\* and the entries of the one emitted batch, with order_index exactly 0..N-1, each
\* value once (N = tasks of D after the drop), and the dragged task in D, whatever
\* the order_index values of D were before (gaps, ties).
C1_DestinationDense ==
    TaskDropped =>
        LET D == Destination
            inD == PositionsIn(tasks, D)
            N == Cardinality(inD)
            items == BatchOf("reorderTasks")
        IN  /\ {tasks[i].order_index : i \in inD} = 0..(N - 1)
            /\ Distinct(Ids(tasks))
            /\ Has(tasks, Dragged) /\ Get(tasks, Dragged).column_id = D
            /\ OneBatch("reorderTasks")
            /\ Len(items) = N
            /\ {items[k].order_index : k \in 1..Len(items)} = 0..(N - 1)
            /\ \A k \in 1..Len(items) :
                  /\ Has(tasks, items[k].id)
                  /\ TaskRef(Get(tasks, items[k].id)) = items[k]
                  /\ items[k].column_id = D

\* C1 witness: a task was dropped from another column into a column that held two
\* tasks with equal order_index and a gap at 0
C1_Witness ==
    /\ TaskDropped
    /\ Origin # Destination
    /\ \E i, j \in PositionsIn(before.tasks, Destination) :
          i # j /\ before.tasks[i].order_index = before.tasks[j].order_index
                /\ before.tasks[i].order_index > 0
    /\ Cardinality(PositionsIn(tasks, Destination)) = 3

\* C2: when a task leaves column A for another column B, every remaining task of A
\* keeps its order_index and column_id in the optimistic cache and none of them is in
\* the emitted batch; with A = [T1(0), T2(1)], B = [T3(0)] and T1 dropped on T3 the
\* result is B = [T1(0), T3(1)], T1 in B, A = [T2(1)].
C2_OriginUntouched ==
    (TaskDropped /\ Origin # Destination) =>
        LET items == BatchOf("reorderTasks")
        IN  /\ \A i \in PositionsIn(before.tasks, Origin) :
                  before.tasks[i].id # Dragged =>
                     /\ Has(tasks, before.tasks[i].id)
                     /\ Get(tasks, before.tasks[i].id) = before.tasks[i]
                     /\ \A k \in 1..Len(items) : items[k].id # before.tasks[i].id
            /\ ( /\ Len(before.tasks) = 3
                 /\ Get(before.tasks, 1) = [id |-> 1, column_id |-> 1, order_index |-> 0]
                 /\ Get(before.tasks, 2) = [id |-> 2, column_id |-> 1, order_index |-> 1]
                 /\ Get(before.tasks, 3) = [id |-> 3, column_id |-> 2, order_index |-> 0]
                 /\ ev.active = DragId("task-", 1) /\ ev.over = DragId("task-", 3) )
               => /\ Get(tasks, 1) = [id |-> 1, column_id |-> 2, order_index |-> 0]
                  /\ Get(tasks, 3) = [id |-> 3, column_id |-> 2, order_index |-> 1]
                  /\ Get(tasks, 2) = [id |-> 2, column_id |-> 1, order_index |-> 1]
                  /\ Len(tasks) = 3

\* C2 witness: the example of the claim, after the drop
C2_Witness ==
    /\ TaskDropped
    /\ before.tasks = << [id |-> 3, column_id |-> 2, order_index |-> 0],
                         [id |-> 1, column_id |-> 1, order_index |-> 0],
                         [id |-> 2, column_id |-> 1, order_index |-> 1] >>
    /\ ev.active = DragId("task-", 1) /\ ev.over = DragId("task-", 3)
    /\ RenderedOrder(tasks, 2) = <<1, 3>>
    /\ RenderedOrder(tasks, 1) = <<2>>

\* C3: dropped on a column, the dragged task is the last task of that column (also
\* when it was already there); dropped on a task Y, it ends at the index Y had in the
\* rendered order of Y's column before the drop; the other tasks of the destination
\* keep their relative order.
C3_InsertionPosition ==
    TaskDropped =>
        LET D == Destination
            pre == RenderedOrder(before.tasks, D)
            post == RenderedOrder(tasks, D)
        IN  /\ Without(post, Dragged) = Without(pre, Dragged)
            /\ Len(post) = Len(Without(pre, Dragged)) + 1
            /\ IF StartsWith(ev.over, "col-")
               THEN post[Len(post)] = Dragged
               ELSE post[IndexOf(pre, DroppedOn)] = Dragged

\* C3 witness: in a column of three tasks rendered <<a, b, c>>, c was dropped on a, so
\* that the order is <<c, a, b>> ("Review" dropped on "Write spec", with a third task)
C3_Witness ==
    /\ TaskDropped
    /\ Origin = Destination
    /\ Len(RenderedOrder(before.tasks, Destination)) = 3
    /\ RenderedOrder(before.tasks, Destination)[3] = Dragged
    /\ RenderedOrder(before.tasks, Destination)[1] = DroppedOn
    /\ RenderedOrder(tasks, Destination) =
          << Dragged, DroppedOn, RenderedOrder(before.tasks, Destination)[2] >>

\* C4 (as claimed): for every kind, a drag-end whose drop target is the dragged entity
\* itself emits no reorder call and leaves the cached projects, columns and tasks as
\* they were.
C4_NoSelfMove ==
    (DragEnded /\ ev.over = ev.active) => (NothingEmitted /\ CacheUntouched)

\* the drop targets the handler cannot resolve to a container
Unresolvable ==
    \/ ev.over = NoTarget
    \/ /\ StartsWith(ev.active, "task-")
       /\ \/ StartsWith(ev.over, "proj-")
          \/ StartsWith(ev.over, "task-") /\ ~Has(before.tasks, DroppedOn)
    \/ StartsWith(ev.active, "proj-") /\ ~StartsWith(ev.over, "proj-")
    \/ StartsWith(ev.active, "col-") /\ ~StartsWith(ev.over, "col-")

\* C5: a drag-end whose drop target cannot be resolved (no over target; a task on a
\* project tab or on a task id absent from the cache; a project tab on a column or a
\* task; a column on a task or a project tab) changes no cached project, column or
\* task and sends no reorder request.
C5_UnresolvedIsNoOp ==
    (DragEnded /\ Unresolvable) => (NothingEmitted /\ CacheUntouched)

\* C5 witness: a project tab was dropped on a column while the cache holds tasks
C5_Witness ==
    /\ DragEnded
    /\ StartsWith(ev.active, "proj-") /\ StartsWith(ev.over, "col-")
    /\ Dragged # DroppedOn
    /\ Len(tasks) = 2

\* X dropped on a different Y of the same kind, both cached
SameKindDrop(prefix, arr) ==
    /\ DragEnded
    /\ StartsWith(ev.active, prefix) /\ StartsWith(ev.over, prefix)
    /\ ev.active # ev.over
    /\ Has(arr, Dragged) /\ Has(arr, DroppedOn)

\* `moved` is `old` with x taken out and put at the position y had
IsMoveOf(moved, old, x, y) ==
    /\ Len(moved) = Len(old)
    /\ moved[IndexOf(old, y)] = x
    /\ Without(moved, x) = Without(old, x)

\* C6: dropping project or column X on a different Y of its kind yields the sequence
\* with X removed and re-inserted at Y's position (not X and Y exchanged); the column
\* batch has one entry per cached column with order_index = its position 0..N-1 in
\* that sequence; the project id list is every cached project id once, in that
\* sequence.
C6_SameKindMove ==
    /\ SameKindDrop("proj-", before.projects) =>
          /\ OneBatch("reorderProjects")
          /\ IsMoveOf(BatchOf("reorderProjects"), Ids(before.projects), Dragged, DroppedOn)
          /\ Distinct(BatchOf("reorderProjects"))
          /\ Ids(projects) = BatchOf("reorderProjects")
    /\ SameKindDrop("col-", before.columns) =>
          LET items == BatchOf("reorderColumns")
          IN  /\ OneBatch("reorderColumns")
              /\ IsMoveOf(Ids(items), Ids(before.columns), Dragged, DroppedOn)
              /\ Distinct(Ids(items))
              /\ \A k \in 1..Len(items) : items[k].order_index = k - 1
              /\ Ids(columns) = Ids(items)
              /\ \A k \in 1..Len(columns) : columns[k].order_index = k - 1

\* C6 witness: the first of three columns was dropped on the last: <<1,2,3>> became
\* <<2,3,1>>, where an exchange would give <<3,2,1>>
C6_Witness ==
    /\ SameKindDrop("col-", before.columns)
    /\ Ids(before.columns) = <<1, 2, 3>>
    /\ Dragged = 1 /\ DroppedOn = 3
    /\ Ids(columns) = <<2, 3, 1>>

(***************************************************************************)
(* The persistent ordering store: SQL statements on the tables.            *)
(* A statement yields [ok, db]: ok is FALSE when it throws, and db is then  *)
(* the tables as the statement found them.                                 *)
(***************************************************************************)
Done(db) == [ok |-> TRUE, db |-> db]
Thrown(db) == [ok |-> FALSE, db |-> db]

HasRow(rows, id) == \E r \in rows : r.id = id

\* FOREIGN KEY (column_id) REFERENCES columns(id), foreign_keys = ON; column_id is
\* not declared NOT NULL, and a NULL key refers to nothing
ColumnKeyHolds(db, column_id) == column_id = Null \/ HasRow(db.columns, column_id)
\* FOREIGN KEY (project_id) REFERENCES projects(id)
ProjectKeyHolds(db, project_id) == HasRow(db.projects, project_id)

\* mutant of UpdateTaskOrder: an entry that names no row is an error
UpdateTaskOrderStrict(db, item) ==
    IF ~HasRow(db.tasks, item.id) \/ ~ColumnKeyHolds(db, item.column_id) THEN Thrown(db)
    ELSE Done([db EXCEPT !.tasks =
                 {IF t.id = item.id
                  THEN [t EXCEPT !.order_index = item.order_index, !.column_id = item.column_id]
                  ELSE t : t \in db.tasks}])

\* UPDATE tasks SET order_index = ?, column_id = ? WHERE id = ?
UpdateTaskOrder(db, item) ==
    IF ~HasRow(db.tasks, item.id) THEN Done(db)
    ELSE IF ~ColumnKeyHolds(db, item.column_id) THEN Thrown(db)
    ELSE Done([db EXCEPT !.tasks =
                 {IF t.id = item.id
                  THEN [t EXCEPT !.order_index = item.order_index, !.column_id = item.column_id]
                  ELSE t : t \in db.tasks}])

\* "order_index": null in a JSON entry, bound as NULL
NullIndex == -1

\* UPDATE columns SET order_index = ? WHERE id = ?      (order_index INTEGER NOT NULL)
UpdateColumnOrder(db, item) ==
    IF ~HasRow(db.columns, item.id) THEN Done(db)
    ELSE IF item.order_index = NullIndex THEN Thrown(db)
    ELSE Done([db EXCEPT !.columns =
                 {IF c.id = item.id THEN [c EXCEPT !.order_index = item.order_index] ELSE c
                    : c \in db.columns}])

\* mutant of UpdateProjectOrder: the row is matched by id only
UpdateProjectOrderAnyOwner(db, index, id, userId) ==
    Done([db EXCEPT !.projects =
            {IF p.id = id THEN [p EXCEPT !.order_index = index] ELSE p : p \in db.projects}])

\* UPDATE projects SET order_index = ? WHERE id = ? AND user_id = ?
UpdateProjectOrder(db, index, id, userId) ==
    Done([db EXCEPT !.projects =
            {IF p.id = id /\ p.user_id = userId THEN [p EXCEPT !.order_index = index] ELSE p
               : p \in db.projects}])

\* mutant of RunStatement: projects are numbered from 1
RunStatementOneBased(kind, db, items, k, userId) ==
    IF kind = "tasks" THEN UpdateTaskOrder(db, items[k])
    ELSE IF kind = "columns" THEN UpdateColumnOrder(db, items[k])
    ELSE UpdateProjectOrder(db, k, items[k], userId)

\* the loop of a reorder transaction: one statement per entry, in order, until one throws
RunStatement(kind, db, items, k, userId) ==
    IF kind = "tasks" THEN UpdateTaskOrder(db, items[k])
    ELSE IF kind = "columns" THEN UpdateColumnOrder(db, items[k])
    ELSE UpdateProjectOrder(db, k - 1, items[k], userId)

RECURSIVE RunStatements(_, _, _, _, _)
RunStatements(kind, db, items, k, userId) ==
    IF k > Len(items) THEN Done(db)
    ELSE LET step == RunStatement(kind, db, items, k, userId)
         IN  IF step.ok THEN RunStatements(kind, step.db, items, k + 1, userId) ELSE step

\* mutant of Transaction: the writes made before the throw stay
TransactionWithoutRollback(start, outcome) == outcome

\* db.transaction(fn)(...): COMMIT when fn returns, ROLLBACK when it throws
Transaction(start, outcome) ==
    IF outcome.ok THEN outcome ELSE Thrown(start)

(***************************************************************************)
(* Listings.  ORDER BY leaves the order of rows with equal keys open: a     *)
(* listing is any arrangement of the rows that respects the keys.          *)
(***************************************************************************)
RECURSIVE Arrangements(_)
Arrangements(rows) ==
    IF rows = {} THEN { <<>> }
    ELSE UNION { { <<r>> \o a : a \in Arrangements(rows \ {r}) } : r \in rows }

Sorted(a, Before(_, _)) == \A i, j \in 1..Len(a) : i < j => ~Before(a[j], a[i])

\* SELECT * FROM projects WHERE user_id = ? ORDER BY order_index ASC, created_at ASC
ProjectListings(db, userId) ==
    { a \in Arrangements({p \in db.projects : p.user_id = userId}) :
        Sorted(a, LAMBDA x, y : \/ x.order_index < y.order_index
                                \/ x.order_index = y.order_index /\ x.created_at < y.created_at) }

\* SELECT * FROM columns WHERE project_id = ? ORDER BY order_index
ColumnListings(db, project_id) ==
    { a \in Arrangements({c \in db.columns : c.project_id = project_id}) :
        Sorted(a, LAMBDA x, y : x.order_index < y.order_index) }

\* SELECT tasks.*, (SELECT COUNT(*) FROM attachments WHERE attachments.task_id =
\* tasks.id) as attachment_count
Counted(db, t) ==
    [f \in DOMAIN t \cup {"attachment_count"} |->
        IF f = "attachment_count"
        THEN Cardinality({a \in db.attachments : a.task_id = t.id})
        ELSE t[f]]

\* tasks JOIN columns ON tasks.column_id = columns.id WHERE columns.project_id = ?
TasksOfProject(db, project_id) ==
    {t \in db.tasks : \E c \in db.columns : c.id = t.column_id /\ c.project_id = project_id}

\* SELECT tasks.* ... ORDER BY tasks.order_index ASC, tasks.created_at DESC
TaskListings(db, project_id) ==
    { a \in Arrangements({Counted(db, t) :
                            t \in (IF project_id = Null THEN db.tasks
                                   ELSE TasksOfProject(db, project_id))}) :
        Sorted(a, LAMBDA x, y : \/ x.order_index < y.order_index
                                \/ x.order_index = y.order_index /\ x.created_at > y.created_at) }

(***************************************************************************)
(* The HTTP handlers.  Each is one synchronous function over the tables    *)
(* (better-sqlite3 is synchronous), so each is one action.                 *)
(***************************************************************************)
Users == 1..(SeededUsers + Registered)
RowIds == 1..MaxRows
\* ids a request can name: the rows' ids and one that no table holds
AnyIds == 1..(MaxRows + 1)

\* POST /api/projects seeds DefaultColumns columns; the seeded project 1 has none, so
\* project 2 owns columns 1..DefaultColumns, project 3 the next DefaultColumns, ...
ColumnIds == 1..((MaxRows - 1) * DefaultColumns)
AnyColumnIds == 1..((MaxRows - 1) * DefaultColumns + 1)
ProjectOfColumn(c) == 2 + ((c - 1) \div DefaultColumns)
SeededColumn(c) ==
    [id |-> c, project_id |-> ProjectOfColumn(c), order_index |-> (c - 1) % DefaultColumns]

SeqsUpTo(S, n) == UNION { [1..k -> S] : k \in 0..n }

\* request bodies: entries may name rows and columns that do not (or no longer) exist
TaskItems == [id : AnyIds, order_index : 0..MaxIdx, column_id : AnyColumnIds]
ColumnItems == [id : AnyColumnIds, order_index : (0..MaxIdx) \cup {NullIndex}]

Handled(request, response, db) ==
    /\ req' = request
    /\ res' = response
    /\ dbBefore' = DB
    /\ dbProjects' = db.projects
    /\ dbColumns' = db.columns
    /\ dbTasks' = db.tasks
    /\ dbAttachments' = db.attachments
    /\ uploads' = uploads

\* the store is observed over one request: the handlers keep no state but the tables,
\* and Init ranges over the tables
Awaiting == req = NoRequest

\* mutant of CountTasks: the tasks of every column are counted
CountAllTasks(db, column_id) == Cardinality(db.tasks)

\* SELECT COUNT(*) as count FROM tasks WHERE column_id = ?
CountTasks(db, column_id) == Cardinality({t \in db.tasks : t.column_id = column_id})
\* SELECT COUNT(*) as count FROM columns WHERE project_id = ?
CountColumns(db, project_id) == Cardinality({c \in db.columns : c.project_id = project_id})

\* POST /api/projects
CreateProject ==
    /\ Awaiting
    /\ \E userId \in Users, name \in BOOLEAN :
         LET request == [Req("createProject", userId, Null, TRUE, <<>>) EXCEPT !.title = name]
             owned == {p \in dbProjects : p.user_id = userId}
             nextOrder == IF owned = {} THEN 0
                          ELSE 1 + CHOOSE m \in {p.order_index : p \in owned} :
                                      \A p \in owned : p.order_index <= m
             projectId == seq.projects + 1
             row == [id |-> projectId, user_id |-> userId, order_index |-> nextOrder,
                     created_at |-> now, name |-> FirstText]
             seeded == {[id |-> seq.columns + i, project_id |-> projectId, order_index |-> i - 1]
                          : i \in 1..DefaultColumns}
         IN  IF ~name THEN Handled(request, Response(400, <<>>), DB) /\ UNCHANGED seq
             ELSE /\ Handled(request, Response(200, <<row>>),
                             [DB EXCEPT !.projects = @ \cup {row}, !.columns = @ \cup seeded])
                  /\ seq' = [seq EXCEPT !.projects = projectId, !.columns = @ + DefaultColumns]
    /\ UNCHANGED <<now, clientVars>>

\* POST /api/columns
CreateColumn ==
    /\ Awaiting
    /\ \E project_id \in AnyIds \cup {Null}, title \in BOOLEAN :
         LET request == [Req("createColumn", Null, project_id, TRUE, <<>>) EXCEPT !.title = title]
             count == CountColumns(DB, project_id)
             row == [id |-> seq.columns + 1, project_id |-> project_id, order_index |-> count]
         IN  IF ~title \/ project_id = Null \/ ~ProjectKeyHolds(DB, project_id)
             THEN Handled(request, Response(400, <<>>), DB) /\ UNCHANGED seq
             ELSE /\ Handled(request, Response(200, <<row>>), [DB EXCEPT !.columns = @ \cup {row}])
                  /\ seq' = [seq EXCEPT !.columns = @ + 1]
    /\ UNCHANGED <<now, clientVars>>

\* a task row as POST /api/tasks inserts it: the title and the description of the
\* request, priority 3
TaskRow(id, column_id, order_index, created_at) ==
    [id |-> id, column_id |-> column_id, order_index |-> order_index,
     created_at |-> created_at,
     title |-> FirstText, description |-> FirstText, priority |-> DefaultPriority]

\* POST /api/tasks
CreateTask ==
    /\ Awaiting
    /\ \E column_id \in AnyColumnIds \cup {Null}, title \in BOOLEAN :
         LET request == [Req("createTask", Null, column_id, TRUE, <<>>) EXCEPT !.title = title]
             count == CountTasks(DB, column_id)
             row == TaskRow(seq.tasks + 1, column_id, count, now)
         IN  IF ~title \/ column_id = Null \/ ~ColumnKeyHolds(DB, column_id)
             THEN Handled(request, Response(400, <<>>), DB) /\ UNCHANGED seq
             ELSE /\ Handled(request, Response(200, <<row>>), [DB EXCEPT !.tasks = @ \cup {row}])
                  /\ seq' = [seq EXCEPT !.tasks = @ + 1]
    /\ UNCHANGED <<now, clientVars>>

\* a field the JSON body does not have (undefined)
Omitted == -2
\* bodies of PUT /api/tasks/:id: each field omitted, null, or a value
TaskBodies ==
    [title : {Omitted, Null, NewText},
     description : {Omitted, Null, NewText},
     column_id : {Omitted, Null} \cup AnyColumnIds,
     priority : {Omitted, MaxPriority, MaxPriority + 1},
     order_index : {Omitted} \cup (0..MaxIdx)]
Supplied(body) == {f \in DOMAIN body : body[f] # Omitted}

\* mutant of UpdateTaskFields: the fields the body omits are written as null
UpdateTaskFieldsAll(db, id, body) ==
    IF ~HasRow(db.tasks, id) THEN Done(db)
    ELSE IF \/ body.title = Null \/ body.description = Null
            \/ body.priority \notin {Omitted} \cup (MinPriority..MaxPriority)
            \/ body.column_id # Omitted /\ ~ColumnKeyHolds(db, body.column_id)
         THEN Thrown(db)
    ELSE Done([db EXCEPT !.tasks =
                 {IF t.id = id
                  THEN [t EXCEPT !.title = body.title,
                                 !.description = body.description,
                                 !.column_id = IF body.column_id = Omitted THEN Null
                                               ELSE body.column_id,
                                 !.priority = body.priority,
                                 !.order_index = body.order_index]
                  ELSE t : t \in db.tasks}])

\* UPDATE tasks SET <the supplied fields> WHERE id = ?
\* title and description are NOT NULL, priority is CHECKed, column_id is a foreign key
UpdateTaskFields(db, id, body) ==
    IF ~HasRow(db.tasks, id) THEN Done(db)
    ELSE IF \/ body.title = Null \/ body.description = Null
            \/ body.priority \notin {Omitted} \cup (MinPriority..MaxPriority)
            \/ body.column_id # Omitted /\ ~ColumnKeyHolds(db, body.column_id)
         THEN Thrown(db)
    ELSE Done([db EXCEPT !.tasks =
                 {IF t.id = id
                  THEN [f \in DOMAIN t |-> IF f \in Supplied(body) THEN body[f] ELSE t[f]]
                  ELSE t : t \in db.tasks}])

\* PUT /api/tasks/:id
UpdateTask ==
    /\ Awaiting
    /\ \E id \in AnyIds, body \in TaskBodies :
         LET request == Req("updateTask", Null, id, TRUE, body)
             out == UpdateTaskFields(DB, id, body)
         IN  IF Supplied(body) = {} THEN Handled(request, Response(400, <<>>), DB)
             ELSE Handled(request, Response(IF out.ok THEN 200 ELSE 400, <<>>), out.db)
    /\ UNCHANGED <<seq, now, clientVars>>

\* mutant of DeleteTasks: the attachments of the deleted tasks stay
DeleteTasksOnly(db, gone) == [db EXCEPT !.tasks = @ \ gone]

\* DELETE FROM tasks WHERE ...; attachments: FOREIGN KEY (task_id) REFERENCES tasks(id)
\* ON DELETE CASCADE
DeleteTasks(db, gone) ==
    [db EXCEPT !.tasks = @ \ gone,
               !.attachments = {a \in @ : ~\E t \in gone : t.id = a.task_id}]

\* DELETE /api/tasks/:id
DeleteTask ==
    /\ Awaiting
    /\ \E id \in AnyIds :
         Handled(Req("deleteTask", Null, id, TRUE, <<>>), Response(200, <<>>),
                 DeleteTasks(DB, {t \in dbTasks : t.id = id}))
    /\ UNCHANGED <<seq, now, clientVars>>

\* DELETE /api/columns/:id
DeleteColumn ==
    /\ Awaiting
    /\ \E id \in AnyColumnIds :
         Handled(Req("deleteColumn", Null, id, TRUE, <<>>), Response(200, <<>>),
                 [DeleteTasks(DB, {t \in dbTasks : t.column_id = id})
                    EXCEPT !.columns = {c \in @ : c.id # id}])
    /\ UNCHANGED <<seq, now, clientVars>>

\* mutant of OwnsProject: the project is looked up by id only
HasProject(db, id, userId) == \E p \in db.projects : p.id = id

\* SELECT id FROM projects WHERE id = ? AND user_id = ?
OwnsProject(db, id, userId) == \E p \in db.projects : p.id = id /\ p.user_id = userId

\* DELETE /api/projects/:id
\* the handler of DELETE /api/projects/:id: its response and the tables after it
ProjectDeleted(db, id, userId) ==
    LET colIds == {c.id : c \in {c \in db.columns : c.project_id = id}}
    IN  IF ~OwnsProject(db, id, userId)
        THEN [db |-> db, res |-> Response(404, <<>>)]
        ELSE [db |-> [DeleteTasks(db, {t \in db.tasks : t.column_id \in colIds})
                         EXCEPT !.columns = {c \in @ : c.project_id # id},
                                !.projects = {p \in @ : p.id # id}],
              res |-> Response(200, <<>>)]

DeleteProject ==
    /\ Awaiting
    /\ \E userId \in Users, id \in AnyIds :
         LET out == ProjectDeleted(DB, id, userId)
         IN  Handled(Req("deleteProject", userId, id, TRUE, <<>>), out.res, out.db)
    /\ UNCHANGED <<seq, now, clientVars>>

\* PUT /api/projects/:id
UpdateProject ==
    /\ Awaiting
    /\ \E userId \in Users, id \in AnyIds, name \in {Null, NewText} :
         LET request == [Req("updateProject", userId, id, TRUE, <<>>) EXCEPT !.title = name # Null]
         IN  IF name = Null THEN Handled(request, Response(400, <<>>), DB)
             ELSE IF ~OwnsProject(DB, id, userId)
             THEN Handled(request, Response(404, <<>>), DB)
             ELSE Handled(request, Response(200, <<>>),
                          [DB EXCEPT !.projects =
                              {IF p.id = id THEN [p EXCEPT !.name = name] ELSE p : p \in @}])
    /\ UNCHANGED <<seq, now, clientVars>>

\* a reorder handler: the Array.isArray test, then the statements in one transaction
Reorder(op, kind, userId, isArray, items) ==
    LET request == Req(op, userId, Null, isArray, items)
    IN  IF ~isArray THEN Handled(request, Response(400, <<>>), DB)
        ELSE LET out == Transaction(DB, RunStatements(kind, DB, items, 1, userId))
             IN  Handled(request, Response(IF out.ok THEN 200 ELSE 400, <<>>), out.db)

\* PUT /api/projects/reorder
ReorderProjects ==
    /\ Awaiting
    /\ \E userId \in Users, isArray \in BOOLEAN :
         \E projectIds \in (IF isArray THEN SeqsUpTo(AnyIds, MaxBatch) ELSE { <<>> }) :
            Reorder("reorderProjects", "projects", userId, isArray, projectIds)
    /\ UNCHANGED <<seq, now, clientVars>>

\* POST /api/columns/reorder
ReorderColumns ==
    /\ Awaiting
    /\ \E isArray \in BOOLEAN :
         \E items \in (IF isArray THEN SeqsUpTo(ColumnItems, MaxBatch) ELSE { <<>> }) :
            Reorder("reorderColumns", "columns", Null, isArray, items)
    /\ UNCHANGED <<seq, now, clientVars>>

\* POST /api/tasks/reorder
ReorderTasks ==
    /\ Awaiting
    /\ \E isArray \in BOOLEAN :
         \E items \in (IF isArray THEN SeqsUpTo(TaskItems, MaxBatch) ELSE { <<>> }) :
            Reorder("reorderTasks", "tasks", Null, isArray, items)
    /\ UNCHANGED <<seq, now, clientVars>>

\* GET /api/projects
ListProjects ==
    /\ Awaiting
    /\ \E userId \in Users : \E listing \in ProjectListings(DB, userId) :
         Handled(Req("listProjects", userId, Null, TRUE, <<>>), Response(200, listing), DB)
    /\ UNCHANGED <<seq, now, clientVars>>

\* GET /api/columns?project_id=
ListColumns ==
    /\ Awaiting
    /\ \E project_id \in AnyIds \cup {Null} :
         LET request == Req("listColumns", Null, project_id, TRUE, <<>>)
         IN  IF project_id = Null THEN Handled(request, Response(400, <<>>), DB)
             ELSE \E listing \in ColumnListings(DB, project_id) :
                     Handled(request, Response(200, listing), DB)
    /\ UNCHANGED <<seq, now, clientVars>>

\* GET /api/tasks?project_id=
ListTasks ==
    /\ Awaiting
    /\ \E project_id \in AnyIds \cup {Null} : \E listing \in TaskListings(DB, project_id) :
         Handled(Req("listTasks", Null, project_id, TRUE, <<>>), Response(200, listing), DB)
    /\ UNCHANGED <<seq, now, clientVars>>

(***************************************************************************)
(* The stores a request can find.  Every assignment of order_index (and of *)
(* column, to tasks) is reachable: a reorder request writes the values it  *)
(* is given, deletions leave gaps, ids are never reused.  One table is     *)
(* drawn freely, the others are as project creation leaves them; the rows  *)
(* were created within one second, or a second apart.                      *)
(***************************************************************************)
CreatedAt(id, spaced) == IF spaced THEN id ELSE 0

ProjectRow(id, order_index, spaced) ==
    [id |-> id, user_id |-> 1, order_index |-> order_index,
     created_at |-> CreatedAt(id, spaced), name |-> FirstText]
\* project 1 is the default project of the seeded user; the others were created by
\* any user
OwnedBy(row, userId) == [row EXCEPT !.user_id = IF row.id = 1 THEN 1 ELSE userId]
CreatedProjects(spaced) == {ProjectRow(i, i - 1, spaced) : i \in RowIds}
SeededColumns == {SeededColumn(c) : c \in ColumnIds}

\* the column that POST /api/columns added to project 1 after the projects were
\* created (deleted again where the tables do not show it)
AddedColumn == [id |-> (MaxRows - 1) * DefaultColumns + 1, project_id |-> 1, order_index |-> 0]
\* one task in each of the first columns of project 2, the last task in project 1
ColumnOfTask(i) == IF i = MaxRows THEN AddedColumn.id ELSE i

\* the directories under UPLOAD_DIR: UPLOAD_DIR itself, 'misc', and one per project id
UploadDir == 0
MiscDir == -1
\* multer destination (projectDir): SELECT c.project_id FROM tasks t JOIN columns c ON t.column_id = c.id
\* WHERE t.id = ?; the directory of the task's project, 'misc' when there is no row
ProjectDir(db, taskId) ==
    LET found == {c.project_id : c \in {d \in db.columns :
                      \E t \in db.tasks : t.id = taskId /\ t.column_id = d.id}}
    IN  IF found = {} THEN MiscDir ELSE CHOOSE projectId \in found : TRUE
\* multer writes the upload to path.join(destination, filename)
WrittenFile(db, taskId, filename) == [dir |-> ProjectDir(db, taskId), name |-> filename]
\* INSERT INTO attachments (task_id, file_name, file_path, ...) VALUES (taskId, originalName,
\* file.filename, ...): file_path is the name of the file, without its directory
AttachmentRow(id, task_id, filename) == [id |-> id, task_id |-> task_id, file_path |-> filename]
\* the files that the uploads of the stored attachments wrote
WrittenFiles(db) == {WrittenFile(db, a.task_id, a.file_path) : a \in db.attachments}

\* the tables with rows of some of the ids, each row built from a value of Values
Tables(ids, Values, Row(_, _)) ==
    { {Row(i, pick[i]) : i \in present} : present \in SUBSET ids, pick \in [ids -> Values] }

Init ==
    /\ \E spaced \in BOOLEAN :
         /\ now = (IF spaced THEN MaxRows + 1 ELSE 0)
         /\ \/ /\ dbProjects \in Tables(RowIds, (0..MaxIdx) \X Users,
                                        LAMBDA i, v : OwnedBy(ProjectRow(i, v[1], spaced), v[2]))
               /\ dbColumns = {c \in SeededColumns : HasRow(dbProjects, c.project_id)}
               /\ dbTasks = {}
               /\ dbAttachments = {}
               /\ uploads = {}
            \/ /\ dbProjects = CreatedProjects(spaced)
               /\ dbColumns \in Tables(ColumnIds, 0..MaxIdx,
                                       LAMBDA i, v : [SeededColumn(i) EXCEPT !.order_index = v])
               /\ dbTasks = {}
               /\ dbAttachments = {}
               /\ uploads = {}
            \/ /\ dbProjects = CreatedProjects(spaced)
               /\ dbColumns = SeededColumns
               /\ dbTasks \in Tables(RowIds, (0..MaxIdx) \X ColumnIds,
                                     LAMBDA i, v : TaskRow(i, v[2], v[1], CreatedAt(i, spaced)))
               /\ dbAttachments = {}
               /\ uploads = {}
            \/ /\ \E userId \in Users :
                    dbProjects = {OwnedBy(p, userId) : p \in CreatedProjects(spaced)}
               /\ dbColumns = SeededColumns \cup {AddedColumn}
               /\ dbTasks = {TaskRow(i, ColumnOfTask(i), 0, CreatedAt(i, spaced)) : i \in RowIds}
               /\ dbAttachments \in Tables(RowIds, RowIds,
                                           LAMBDA i, v : AttachmentRow(i, v, i))
               /\ uploads = WrittenFiles(DB)
    /\ seq = [projects |-> MaxRows, columns |-> AddedColumn.id, tasks |-> MaxRows,
              attachments |-> MaxRows]
    /\ req = NoRequest
    /\ res = Response(200, <<>>)
    /\ dbBefore = DB
    /\ projects = <<>>
    /\ columns = <<>>
    /\ tasks = <<>>
    /\ active = NoDrag
    /\ activeId = Null
    /\ activeType = NoType
    /\ ev = [type |-> "none", active |-> NoDrag, over |-> NoTarget]
    /\ before = Cache
    /\ emitted = <<>>
    /\ currentProjectId = Null
    /\ error = Null
    /\ attachments = <<>>
    /\ calls = <<>>

Next ==
    \/ CreateProject \/ CreateColumn \/ CreateTask \/ UpdateTask
    \/ DeleteTask \/ DeleteColumn \/ DeleteProject \/ UpdateProject
    \/ ReorderProjects \/ ReorderColumns \/ ReorderTasks
    \/ ListProjects \/ ListColumns \/ ListTasks

Spec == Init /\ [][Next]_vars

(***************************************************************************)
(* The cases of a handled request, read off the request, the response and  *)
(* the tables before it.                                                   *)
(***************************************************************************)
Reordered ==
    req.op \in {"reorderProjects", "reorderColumns", "reorderTasks"} /\ req.isArray
Table(db) ==
    IF req.op = "reorderProjects" THEN db.projects
    ELSE IF req.op = "reorderColumns" THEN db.columns ELSE db.tasks
OtherTablesKept ==
    /\ req.op # "reorderProjects" => dbProjects = dbBefore.projects
    /\ req.op # "reorderColumns" => dbColumns = dbBefore.columns
    /\ req.op # "reorderTasks" => dbTasks = dbBefore.tasks
Entries == 1..Len(req.items)
EntryId(k) == IF req.op = "reorderProjects" THEN req.items[k] ELSE req.items[k].id
\* the entry names no row (of the caller, for a project)
Misses(k) ==
    ~\E r \in Table(dbBefore) :
        r.id = EntryId(k) /\ (req.op = "reorderProjects" => r.user_id = req.user)
\* the entry names a row and gives it a value the schema refuses
Refused(k) ==
    /\ ~Misses(k)
    /\ \/ /\ req.op = "reorderTasks"
          /\ ~\E c \in dbBefore.columns : c.id = req.items[k].column_id
       \/ /\ req.op = "reorderColumns"
          /\ req.items[k].order_index = NullIndex
\* the row as entry k asks it to be
Written(r, k) ==
    IF req.op = "reorderProjects" THEN [r EXCEPT !.order_index = k - 1]
    ELSE IF req.op = "reorderColumns" THEN [r EXCEPT !.order_index = req.items[k].order_index]
    ELSE [r EXCEPT !.order_index = req.items[k].order_index,
                   !.column_id = req.items[k].column_id]
Names(k, r) == EntryId(k) = r.id /\ ~Misses(k)
LastEntryOf(r) ==
    CHOOSE k \in Entries : Names(k, r) /\ \A j \in Entries : j > k => ~Names(j, r)
\* the table with every entry of the batch applied, the later entry of a row last
AllApplied ==
    {IF \E k \in Entries : Names(k, r) THEN Written(r, LastEntryOf(r)) ELSE r
       : r \in Table(dbBefore)}

\* what a reorder persists: the order_index of every row and the column of every task
PersistedOrder(db) ==
    [projects |-> {<<r.id, r.order_index>> : r \in db.projects},
     columns |-> {<<r.id, r.order_index>> : r \in db.columns},
     tasks |-> {<<r.id, r.order_index, r.column_id>> : r \in db.tasks}]

\* the tasks of one column in listed order
ColumnTaskListings(db, column_id) ==
    {SelectSeq(l, LAMBDA t : t.column_id = column_id) : l \in TaskListings(db, Null)}

\* the reorder requests that restate a container's listed order, position by position
IdentityRequests(db) ==
    {[op |-> "reorderProjects", user |-> u, listing |-> l, items |-> Ids(l)]
       : u \in Users, l \in UNION {ProjectListings(db, v) : v \in Users}}
    \cup
    {[op |-> "reorderColumns", user |-> Null, listing |-> l,
      items |-> [k \in 1..Len(l) |-> [id |-> l[k].id, order_index |-> k - 1]]]
       : l \in UNION {ColumnListings(db, p.id) : p \in db.projects}}
    \cup
    {[op |-> "reorderTasks", user |-> Null, listing |-> l,
      items |-> [k \in 1..Len(l) |->
                   [id |-> l[k].id, order_index |-> k - 1, column_id |-> l[k].column_id]]]
       : l \in UNION {ColumnTaskListings(db, c.id) : c \in db.columns}}
\* those of them that the handled request is
IdentityReorders ==
    {i \in IdentityRequests(dbBefore) :
        /\ i.listing # <<>>
        /\ Reordered /\ req.op = i.op /\ req.user = i.user /\ req.items = i.items
        /\ \A k \in 1..Len(i.listing) :
              i.op = "reorderProjects" => i.listing[k].user_id = i.user}
DenseListing(l) == \A k \in 1..Len(l) : l[k].order_index = k - 1

(***************************************************************************)
(* C7, as stated: a reorder request that restates a container's current    *)
(* listed order leaves every persisted order_index and every task's column *)
(* as they were, in every store the program can reach.                     *)
(***************************************************************************)
C7_IdentityReorderKeeps ==
    IdentityReorders # {} => PersistedOrder(DB) = PersistedOrder(dbBefore)

(***************************************************************************)
(* C7, amended: a reorder request that restates a container's current      *)
(* listed order succeeds and leaves every persisted order_index and every  *)
(* task's column as they were, when the container's order_index values in  *)
(* listed order are 0, 1, ..., N-1.                                        *)
(***************************************************************************)
C7_DenseIdentityReorderKeeps ==
    (\E i \in IdentityReorders : DenseListing(i.listing))
        => res.success /\ PersistedOrder(DB) = PersistedOrder(dbBefore)

C7_Witness ==
    /\ res.success
    /\ \E i \in IdentityReorders :
          DenseListing(i.listing) /\ Len(i.listing) = 2 /\ i.op = "reorderProjects"

(***************************************************************************)
(* C8: creating a task in a column that holds N tasks succeeds, persists   *)
(* one new task with order_index = N in that column, and leaves every      *)
(* existing task as it was.                                                *)
(***************************************************************************)
SiblingsBefore == {t \in dbBefore.tasks : t.column_id = req.id}
C9_SoftFailBatch ==
    Reordered /\ (\E k \in Entries : Misses(k)) /\ (\A k \in Entries : ~Refused(k))
        => /\ res.success
           /\ Table(DB) = AllApplied
           /\ OtherTablesKept
           /\ \A k \in Entries :
                Misses(k) => ~\E r \in Table(DB) :
                                 /\ r.id = EntryId(k)
                                 /\ req.op = "reorderProjects" => r.user_id = req.user

C9_Witness ==
    /\ Reordered /\ req.op = "reorderTasks" /\ res.success
    /\ Len(req.items) = 2
    /\ Misses(1) /\ ~Misses(2)
    /\ ~\E c \in dbBefore.columns : c.id = req.items[1].column_id
    /\ dbTasks # dbBefore.tasks
    /\ dbTasks = AllApplied

(***************************************************************************)
(* C10: a reorder batch is applied entirely or not at all: when an entry   *)
(* raises a store error (a task entry whose column_id names no column, a   *)
(* column entry with a null order_index) the request reports failure and   *)
(* the tables are as they were; otherwise every entry is applied.          *)
(***************************************************************************)
C10_AllOrNothing ==
    Reordered
        => /\ (\E k \in Entries : Refused(k)) => ~res.success /\ DB = dbBefore
           /\ (\A k \in Entries : ~Refused(k)) => res.success /\ Table(DB) = AllApplied
           /\ OtherTablesKept

C10_Witness ==
    /\ Reordered /\ req.op = "reorderTasks" /\ ~res.success
    /\ Len(req.items) = 2
    /\ ~Misses(1) /\ ~Refused(1) /\ Refused(2)
    /\ \E r \in dbBefore.tasks : Names(1, r) /\ Written(r, 1) # r
    /\ DB = dbBefore

(***************************************************************************)
(* C17: after every drag-end event, with or without a drop target and      *)
(* whether or not the dragged entity is still in the cache, the gesture    *)
(* state is Idle: activeId and activeType are both null.                   *)
(***************************************************************************)
C17_GestureIdle == DragEnded => activeId = Null /\ activeType = NoType

(***************************************************************************)
(* C18: a successful delete of a project removes the project, its columns, *)
(* the tasks of those columns and the attachments of those tasks; of a     *)
(* column, the column, its tasks and their attachments; of a task, the     *)
(* task and its attachments; every other row is as it was.                 *)
(***************************************************************************)
IdsOf(rows) == {r.id : r \in rows}
GoneProjects == IF req.op = "deleteProject" THEN {p \in dbBefore.projects : p.id = req.id} ELSE {}
GoneColumns ==
    IF req.op = "deleteProject" THEN {c \in dbBefore.columns : c.project_id = req.id}
    ELSE IF req.op = "deleteColumn" THEN {c \in dbBefore.columns : c.id = req.id}
    ELSE {}
GoneTasks ==
    IF req.op = "deleteTask" THEN {t \in dbBefore.tasks : t.id = req.id}
    ELSE {t \in dbBefore.tasks : t.column_id \in IdsOf(GoneColumns)}
GoneAttachments == {a \in dbBefore.attachments : a.task_id \in IdsOf(GoneTasks)}

C18_CascadeDelete ==
    req.op \in {"deleteProject", "deleteColumn", "deleteTask"} /\ res.success
        => /\ dbProjects = dbBefore.projects \ GoneProjects
           /\ dbColumns = dbBefore.columns \ GoneColumns
           /\ dbTasks = dbBefore.tasks \ GoneTasks
           /\ dbAttachments = dbBefore.attachments \ GoneAttachments

C18_Witness ==
    /\ req.op = "deleteProject" /\ res.success
    /\ GoneProjects # {} /\ GoneColumns # {} /\ GoneTasks # {} /\ GoneAttachments # {}
    /\ dbTasks # {} /\ dbAttachments # {} /\ dbColumns # {}
    /\ dbAttachments = dbBefore.attachments \ GoneAttachments

(***************************************************************************)
(* C19: in every state of the store, every task's column_id is the id of   *)
(* an existing column (never null, never a missing column).                *)
(***************************************************************************)
C19_TaskColumnExists == \A t \in dbTasks : \E c \in dbColumns : c.id = t.column_id

(***************************************************************************)
(* C20: a task update that supplies none of title, description, column_id, *)
(* priority, order_index answers 400 and changes nothing; one that         *)
(* supplies values the schema accepts succeeds; a successful one gives the *)
(* addressed task exactly the supplied values, and leaves its other fields *)
(* and every other row as they were; a failed one changes nothing.         *)
(***************************************************************************)
UpdateFields == {"title", "description", "column_id", "priority", "order_index"}
Given(f) == req.items[f] # Omitted
Acceptable ==
    /\ \E f \in UpdateFields : Given(f)
    /\ req.items.title # Null /\ req.items.description # Null
    /\ Given("priority") => req.items.priority \in MinPriority..MaxPriority
    /\ Given("column_id") =>
          req.items.column_id = Null \/ req.items.column_id \in IdsOf(dbBefore.columns)
AsUpdated(t) ==
    [id |-> t.id, created_at |-> t.created_at,
     title |-> IF Given("title") THEN req.items.title ELSE t.title,
     description |-> IF Given("description") THEN req.items.description ELSE t.description,
     column_id |-> IF Given("column_id") THEN req.items.column_id ELSE t.column_id,
     priority |-> IF Given("priority") THEN req.items.priority ELSE t.priority,
     order_index |-> IF Given("order_index") THEN req.items.order_index ELSE t.order_index]

C20_TaskFieldUpdate ==
    req.op = "updateTask"
        => /\ (\A f \in UpdateFields : ~Given(f)) => res.status = 400 /\ DB = dbBefore
           /\ (Acceptable \/ req.id \notin IdsOf(dbBefore.tasks)) /\ (\E f \in UpdateFields : Given(f))
                 => res.success
           /\ ~res.success => DB = dbBefore
           /\ res.success =>
                 /\ dbTasks = {IF t.id = req.id THEN AsUpdated(t) ELSE t : t \in dbBefore.tasks}
                 /\ dbProjects = dbBefore.projects
                 /\ dbColumns = dbBefore.columns
                 /\ dbAttachments = dbBefore.attachments

C20_Witness ==
    /\ req.op = "updateTask" /\ res.success
    /\ \A f \in UpdateFields : Given(f) <=> f = "priority"
    /\ \E t \in dbBefore.tasks :
          /\ t.id = req.id /\ t.priority = DefaultPriority /\ t.order_index = 1
          /\ [t EXCEPT !.priority = MaxPriority] \in dbTasks
    /\ \E t \in dbTasks : t.id # req.id

(***************************************************************************)
(* The client store over the network (store/taskStore).  A store method    *)
(* runs to its await in one step; its request is then answered by the      *)
(* server or rejected by the network, and the rest of the method runs in   *)
(* one step when the awaited promise settles.  Several calls can be        *)
(* awaiting at once; nothing orders their responses.                       *)
(***************************************************************************)
\* store method calls the user makes in one behaviour
MaxOps == 2

\* err.message / data.error: some message
Message == 1
\* the status authenticateToken answers a request without a valid token with
Unauthorized == 401
Forbidden == 403

\* a request of a call: sent, then answered by the server or rejected (fetch throws)
Sent == [state |-> "sent", status |-> 0, success |-> FALSE, data |-> <<>>]
NoExchange == [state |-> "none", status |-> 0, success |-> FALSE, data |-> <<>>]
Lost == [state |-> "rejected", status |-> 0, success |-> FALSE, data |-> <<>>]
Answer(r) == [state |-> "answered", status |-> r.status, success |-> r.success, data |-> r.data]

\* a call of a store method, at its await: the method, its argument (a project or
\* task id), the body it sent, the list it captured for a rollback, its requests (y is
\* the second request of fetchProjectData), who made it; and, as observations, the
\* cache before the call and the cache when the request was sent
Call(kind, arg, items, prev, atCall, atSend, by) ==
    [kind |-> kind, arg |-> arg, items |-> items, prev |-> prev,
     x |-> Sent, y |-> (IF kind = "fetchProjectData" THEN Sent ELSE NoExchange),
     stage |-> "awaiting", atCall |-> atCall, atSend |-> atSend, by |-> by]

UserOps == Cardinality({i \in DOMAIN calls : calls[i].by = "user"})

\* fetchProjectData(projectId) up to its await: set({isLoading: true, error: null}),
\* then the two requests
FetchProjectData(projectId, by) ==
    Call("fetchProjectData", projectId, <<>>, <<>>, Cache, Cache, by)

\* setCurrentProject(id), from a click on a project tab
SetCurrentProject ==
    /\ UserOps < MaxOps
    /\ \E id \in {projects[i].id : i \in DOMAIN projects} :
         /\ currentProjectId' = id
         /\ calls' = Append(calls, FetchProjectData(id, "user"))
    /\ error' = Null
    /\ UNCHANGED <<projects, columns, tasks, attachments>>
    /\ UNCHANGED <<active, activeId, activeType, ev, before, emitted>>
    /\ UNCHANGED storeVars

\* the fields the task dialog saves: updateTask(editingTask.id, {title, description, priority})
DialogUpdates ==
    [title |-> NewText, description |-> NewText, priority |-> MaxPriority,
     column_id |-> Omitted, order_index |-> Omitted]

\* tasks.map(t => t.id === id ? {...t, ...updates} : t)
OptimisticUpdate(ts, id, updates) ==
    [i \in 1..Len(ts) |->
        IF ts[i].id = id
        THEN [f \in DOMAIN ts[i] |-> IF f \in Supplied(updates) THEN updates[f] ELSE ts[i][f]]
        ELSE ts[i]]

\* updateTask(id, updates) up to its await, from the task dialog
ClientUpdateTask ==
    /\ UserOps < MaxOps
    /\ \E id \in {tasks[i].id : i \in DOMAIN tasks} :
         LET previousTasks == tasks
             updated == OptimisticUpdate(tasks, id, DialogUpdates)
         IN  /\ tasks' = updated
             /\ calls' = Append(calls, Call("updateTask", id, DialogUpdates, previousTasks,
                                            Cache, [Cache EXCEPT !.tasks = updated], "user"))
    /\ UNCHANGED <<projects, columns, currentProjectId, error>>
    /\ UNCHANGED <<active, activeId, activeType, ev, before, emitted, attachments>>
    /\ UNCHANGED storeVars

\* what is rendered and can be dragged or dropped on
Rendered ==
    {DragId("proj-", projects[i].id) : i \in DOMAIN projects}
    \cup {DragId("col-", columns[i].id) : i \in DOMAIN columns}
    \cup {DragId("task-", tasks[i].id) : i \in DOMAIN tasks}

\* a whole gesture: handleDragStart, then handleDragEnd with the reorder method it
\* calls, up to that method's await
Drop ==
    /\ UserOps < MaxOps
    /\ \E act \in Rendered, over \in Rendered \cup {NoTarget} :
         LET out == HandleDragEnd(act, over)
             sent == [projects |-> out.projects, columns |-> out.columns, tasks |-> out.tasks]
         IN  /\ out.emitted # <<>>
             /\ projects' = out.projects
             /\ columns' = out.columns
             /\ tasks' = out.tasks
             /\ calls' = Append(calls, Call(out.emitted[1].op, Null, out.emitted[1].payload,
                                            IF out.emitted[1].op = "reorderProjects"
                                            THEN projects ELSE <<>>,
                                            Cache, sent, "user"))
    /\ UNCHANGED <<currentProjectId, error>>
    /\ UNCHANGED <<active, activeId, activeType, ev, before, emitted, attachments>>
    /\ UNCHANGED storeVars

\* app.use('/api/...', authenticateToken, routes): a request whose bearer token is
\* absent or no longer valid is refused before the handler runs
AuthenticateToken(db) == {[db |-> db, res |-> Response(Unauthorized, <<>>)]}

\* what the server can answer to a request of call c, and the tables after: the
\* middleware's refusal, or the handler's response
Served(db, c, which) ==
    AuthenticateToken(db)
    \cup
    (IF c.kind = "fetchProjectData"
     THEN {[db |-> db, res |-> Response(200, listing)] :
             listing \in (IF which = "x" THEN TaskListings(db, c.arg)
                          ELSE ColumnListings(db, c.arg))}
     ELSE IF c.kind = "deleteProject" THEN {ProjectDeleted(db, c.arg, 1)}
     ELSE IF c.kind = "updateTask"
     THEN LET out == UpdateTaskFields(db, c.arg, c.items)
          IN  {[db |-> out.db, res |-> Response(IF out.ok THEN 200 ELSE 400, <<>>)]}
     ELSE LET kind == IF c.kind = "reorderTasks" THEN "tasks"
                      ELSE IF c.kind = "reorderColumns" THEN "columns" ELSE "projects"
              out == Transaction(db, RunStatements(kind, db, c.items, 1, 1))
          IN  {[db |-> out.db, res |-> Response(IF out.ok THEN 200 ELSE 400, <<>>)]})

Requests == {"x", "y"}

\* the server handles a request that was sent
Serve ==
    /\ \E i \in DOMAIN calls, which \in Requests :
         /\ calls[i].stage = "awaiting"
         /\ calls[i][which].state = "sent"
         /\ \E o \in Served(DB, calls[i], which) :
              /\ dbProjects' = o.db.projects
              /\ dbColumns' = o.db.columns
              /\ dbTasks' = o.db.tasks
              /\ calls' = [calls EXCEPT ![i][which] = Answer(o.res)]
    /\ UNCHANGED <<dbAttachments, uploads, seq, now, req, res, dbBefore>>
    /\ UNCHANGED <<projects, columns, tasks, currentProjectId, error>>
    /\ UNCHANGED <<active, activeId, activeType, ev, before, emitted, attachments>>

\* the network fails a request or its response: fetch rejects
Lose ==
    /\ \E i \in DOMAIN calls, which \in Requests :
         /\ calls[i].stage = "awaiting"
         /\ calls[i][which].state \in {"sent", "answered"}
         /\ calls' = [calls EXCEPT ![i][which] = Lost]
    /\ UNCHANGED <<projects, columns, tasks, currentProjectId, error>>
    /\ UNCHANGED <<active, activeId, activeType, ev, before, emitted, attachments>>
    /\ UNCHANGED storeVars

(***************************************************************************)
(* The rest of each method, after its await.  Each yields the store state  *)
(* [projects, columns, tasks, error] and the project it refetches (Null:   *)
(* none).                                                                  *)
(***************************************************************************)
Kept(e, refetch) ==
    [projects |-> projects, columns |-> columns, tasks |-> tasks, error |-> e,
     attachments |-> attachments, currentProjectId |-> currentProjectId,
     refetch |-> refetch]
Rejected(c) == c.x.state = "rejected" \/ c.y.state = "rejected"
AuthRefused(c) == c.x.status \in {Unauthorized, Forbidden} \/ c.y.status \in {Unauthorized, Forbidden}
\* Promise.all settles when one request rejects or both are answered
Settles(c) ==
    \/ Rejected(c)
    \/ c.x.state = "answered" /\ c.y.state \in {"answered", "none"}

\* mutant of FetchProjectDataSettled: a response for a project that is no longer the
\* current one is ignored
FetchProjectDataSettledIfCurrent(c) ==
    IF Rejected(c) THEN Kept(Message, Null)
    ELSE IF AuthRefused(c) THEN Kept(error, Null)
    ELSE IF c.x.success /\ c.y.success
    THEN (IF c.arg = currentProjectId
          THEN [Kept(error, Null) EXCEPT !.tasks = c.x.data, !.columns = c.y.data]
          ELSE Kept(error, Null))
    ELSE Kept(Message, Null)

FetchProjectDataSettled(c) ==
    IF Rejected(c) THEN Kept(Message, Null)
    ELSE IF AuthRefused(c) THEN Kept(error, Null)   \* logout(); return
    ELSE IF c.x.success /\ c.y.success
    THEN [Kept(error, Null) EXCEPT !.tasks = c.x.data, !.columns = c.y.data]
    ELSE Kept(Message, Null)

\* mutant of UpdateTaskSettled: a failure sets the error and keeps the optimistic tasks
UpdateTaskSettledKept(c) ==
    IF Rejected(c) \/ ~c.x.success THEN Kept(Message, Null) ELSE Kept(error, Null)

UpdateTaskSettled(c) ==
    IF Rejected(c) \/ ~c.x.success
    THEN [Kept(Message, Null) EXCEPT !.tasks = c.prev]
    ELSE Kept(error, Null)

\* the response is not read: `if (pid) get().fetchProjectData(pid)` in try and in catch
ReorderTasksSettled(c) == Kept(error, currentProjectId)

\* the response is not read; the refetch is in catch only
ReorderColumnsSettled(c) ==
    IF Rejected(c) THEN Kept(error, currentProjectId) ELSE Kept(error, Null)

ReorderProjectsSettled(c) ==
    IF Rejected(c) THEN [Kept(Message, Null) EXCEPT !.projects = c.prev]
    ELSE IF AuthRefused(c) THEN Kept(error, Null)   \* logout(); return
    ELSE IF ~c.x.success THEN [Kept(Message, Null) EXCEPT !.projects = c.prev]
    ELSE Kept(error, Null)

\* response.ok: the status is in the range 200-299
Ok(x) == x.state = "answered" /\ x.status \in 200..299

\* {...t, attachment_count: n} for the task taskId
WithAttachmentCount(ts, taskId, Count(_)) ==
    [i \in 1..Len(ts) |->
        IF ts[i].id = taskId
        THEN [ts[i] EXCEPT !.attachment_count = Count(ts[i].attachment_count)]
        ELSE ts[i]]

\* state.attachments[taskId] || []
AttachmentsOf(taskId) == IF taskId \in DOMAIN attachments THEN attachments[taskId] ELSE <<>>
\* {...state.attachments, [taskId]: list}
WithAttachments(taskId, list) ==
    [k \in DOMAIN attachments \cup {taskId} |-> IF k = taskId THEN list ELSE attachments[k]]

\* uploadAttachment after its await
UploadAttachmentSettled(c) ==
    IF Rejected(c) THEN Kept(Message, Null)
    ELSE IF Ok(c.x)
    THEN [Kept(error, Null) EXCEPT
            !.attachments = WithAttachments(c.arg, c.x.data \o AttachmentsOf(c.arg)),
            !.tasks = WithAttachmentCount(tasks, c.arg, LAMBDA n : n + 1)]
    ELSE Kept(Message, Null)

\* mutant of DeleteAttachmentSettled: the count is decremented without the floor
DeleteAttachmentSettledUnfloored(c) ==
    IF Rejected(c) THEN Kept(Message, Null)
    ELSE [Kept(error, Null) EXCEPT
            !.attachments = WithAttachments(c.arg, SelectSeq(AttachmentsOf(c.arg),
                                                             LAMBDA a : a.id # c.items[1])),
            !.tasks = WithAttachmentCount(tasks, c.arg, LAMBDA n : n - 1)]

\* deleteAttachment after its await: the response is not read
DeleteAttachmentSettled(c) ==
    IF Rejected(c) THEN Kept(Message, Null)
    ELSE [Kept(error, Null) EXCEPT
            !.attachments = WithAttachments(c.arg, SelectSeq(AttachmentsOf(c.arg),
                                                             LAMBDA a : a.id # c.items[1])),
            !.tasks = WithAttachmentCount(tasks, c.arg,
                                          LAMBDA n : IF n - 1 > 0 THEN n - 1 ELSE 0)]

\* deleteProject after its await: the selection moves to the first project left
DeleteProjectSettled(c) ==
    IF Rejected(c) THEN Kept(Message, Null)
    ELSE IF c.x.success
    THEN LET newProjects == SelectSeq(projects, LAMBDA p : p.id # c.arg)
             newCurrentId == IF Len(newProjects) > 0 THEN newProjects[1].id ELSE Null
         IN  IF newCurrentId # Null
             THEN [Kept(error, newCurrentId) EXCEPT !.projects = newProjects,
                                                    !.currentProjectId = newCurrentId]
             ELSE [Kept(error, Null) EXCEPT !.projects = newProjects,
                                            !.currentProjectId = Null,
                                            !.tasks = <<>>, !.columns = <<>>]
    ELSE Kept(Message, Null)

MethodSettled(c) ==
    IF c.kind = "deleteProject" THEN DeleteProjectSettled(c)
    ELSE IF c.kind = "uploadAttachment" THEN UploadAttachmentSettled(c)
    ELSE IF c.kind = "deleteAttachment" THEN DeleteAttachmentSettled(c)
    ELSE IF c.kind = "fetchProjectData" THEN FetchProjectDataSettled(c)
    ELSE IF c.kind = "updateTask" THEN UpdateTaskSettled(c)
    ELSE IF c.kind = "reorderTasks" THEN ReorderTasksSettled(c)
    ELSE IF c.kind = "reorderColumns" THEN ReorderColumnsSettled(c)
    ELSE ReorderProjectsSettled(c)

\* an awaited promise settles and the method runs to its end
Settle ==
    /\ \E i \in DOMAIN calls :
         /\ calls[i].stage = "awaiting"
         /\ Settles(calls[i])
         /\ LET out == MethodSettled(calls[i])
                done == [calls EXCEPT ![i].stage = "done"]
            IN  /\ projects' = out.projects
                /\ columns' = out.columns
                /\ tasks' = out.tasks
                /\ attachments' = out.attachments
                /\ currentProjectId' = out.currentProjectId
                /\ IF out.refetch # Null
                   THEN /\ error' = Null
                        /\ calls' = Append(done, [FetchProjectData(out.refetch, "refresh")
                                                    EXCEPT !.atCall = out, !.atSend = out])
                   ELSE /\ error' = out.error
                        /\ calls' = done
    /\ UNCHANGED <<active, activeId, activeType, ev, before, emitted>>
    /\ UNCHANGED storeVars

\* a signed-in client that has loaded one of its projects, over a store holding the
\* created projects, their seeded columns, the added column and one task per column
\* of ColumnOfTask
ClientInit ==
    /\ dbProjects = CreatedProjects(TRUE)
    /\ dbColumns = SeededColumns \cup {AddedColumn}
    /\ dbTasks = {TaskRow(i, ColumnOfTask(i), 0, CreatedAt(i, TRUE)) : i \in RowIds}
    /\ dbAttachments = {}
    /\ uploads = {}
    /\ seq = [projects |-> MaxRows, columns |-> AddedColumn.id, tasks |-> MaxRows,
              attachments |-> 0]
    /\ now = MaxRows + 1
    /\ req = NoRequest
    /\ res = Response(200, <<>>)
    /\ dbBefore = DB
    /\ currentProjectId \in RowIds
    /\ projects \in ProjectListings(DB, 1)
    /\ columns \in ColumnListings(DB, currentProjectId)
    /\ tasks \in TaskListings(DB, currentProjectId)
    /\ error = Null
    /\ attachments = <<>>
    /\ calls = <<>>
    /\ active = NoDrag
    /\ activeId = Null
    /\ activeType = NoType
    /\ ev = [type |-> "none", active |-> NoDrag, over |-> NoTarget]
    /\ before = Cache
    /\ emitted = <<>>

ClientNext == SetCurrentProject \/ ClientUpdateTask \/ Drop \/ Serve \/ Lose \/ Settle

SpecClient == ClientInit /\ [][ClientNext]_vars

(***************************************************************************)
(* The cases of a call, read off its record and the step that ends it.     *)
(***************************************************************************)
\* the step in which call i runs from its await to its end
Ends(i) == calls[i].stage = "awaiting" /\ calls'[i].stage = "done"
\* the persistence call failed: the request was rejected, or answered without success
FailedCall(c) == c.x.state = "rejected" \/ (c.x.state = "answered" /\ ~c.x.success)

\* C11: when an updateTask call fails (the response reports no success, or the request
\* is rejected), then in the state after the failure is handled the cached task has
\* the field values it had before the call, and the error is set.
C11_UpdateRollback ==
    [][\A i \in DOMAIN calls :
         (calls[i].kind = "updateTask" /\ Ends(i) /\ FailedCall(calls[i]))
         => /\ error' # Null
            /\ Has(tasks', calls[i].arg)
            /\ Get(tasks', calls[i].arg) = Get(calls[i].atCall.tasks, calls[i].arg)]_vars

\* an updateTask call that changed the cached task has failed and the task is back
C11_Witness ==
    \E i \in DOMAIN calls :
        /\ calls[i].kind = "updateTask" /\ calls[i].stage = "done" /\ FailedCall(calls[i])
        /\ Get(calls[i].atSend.tasks, calls[i].arg) # Get(calls[i].atCall.tasks, calls[i].arg)
        /\ Has(tasks, calls[i].arg)
        /\ Get(tasks, calls[i].arg) = Get(calls[i].atCall.tasks, calls[i].arg)
        /\ error # Null

\* the step issues a fetchProjectData for the selected project
IssuesFetch ==
    /\ Len(calls') = Len(calls) + 1
    /\ calls'[Len(calls')].kind = "fetchProjectData"
    /\ calls'[Len(calls')].arg = currentProjectId
    /\ calls'[Len(calls')].stage = "awaiting"

\* C12: after every reorderTasks call and every reorderColumns call completes, whether
\* the request was answered with success, answered with an error status or rejected,
\* a fetchProjectData for the selected project is issued, if a project is selected.
C12_RefetchAfterReorder ==
    [][\A i \in DOMAIN calls :
         (calls[i].kind \in {"reorderTasks", "reorderColumns"} /\ Ends(i)
            /\ currentProjectId # Null)
         => IssuesFetch]_vars

\* the only call the user made is a reorder of tasks or columns, its persistence
\* failed, and every call has run to its end, the follow-up fetches with success
FailedReorderFollowedUp ==
    /\ calls # <<>>
    /\ UserOps = 1
    /\ calls[1].kind \in {"reorderTasks", "reorderColumns"}
    /\ FailedCall(calls[1])
    /\ \A i \in DOMAIN calls : calls[i].stage = "done"
    /\ \A i \in DOMAIN calls :
         calls[i].kind = "fetchProjectData"
         => /\ calls[i].x.state = "answered" /\ calls[i].x.success
            /\ calls[i].y.state = "answered" /\ calls[i].y.success

\* C13: when the persistence call of a task or column reorder fails and no other
\* operation is issued, then once the follow-up responses are delivered the cached
\* columns and tasks are the store's columns and tasks of the current project.
C13_FailedReorderReverts ==
    FailedReorderFollowedUp
    => /\ columns \in ColumnListings(DB, currentProjectId)
       /\ tasks \in TaskListings(DB, currentProjectId)

\* the step sends the request of a reorder call
SendsReorder ==
    /\ Len(calls') = Len(calls) + 1
    /\ calls'[Len(calls')].kind \in {"reorderTasks", "reorderColumns", "reorderProjects"}
    /\ calls'[Len(calls')].x.state = "sent"

\* the cache holds the ordering that a reorder request carries
HoldsOrdering(cache, c) ==
    IF c.kind = "reorderProjects" THEN Ids(cache.projects) = c.items
    ELSE IF c.kind = "reorderColumns"
    THEN /\ Ids(cache.columns) = Ids(c.items)
         /\ \A k \in DOMAIN c.items :
              Get(cache.columns, c.items[k].id).order_index = c.items[k].order_index
    ELSE \A k \in DOMAIN c.items :
            /\ Has(cache.tasks, c.items[k].id)
            /\ Get(cache.tasks, c.items[k].id).order_index = c.items[k].order_index
            /\ Get(cache.tasks, c.items[k].id).column_id = c.items[k].column_id

\* C14: for reorderTasks, reorderColumns and reorderProjects the cache already holds
\* the new ordering when the persistence request is sent.
C14_OptimisticBeforePersist ==
    [][SendsReorder
       => HoldsOrdering([projects |-> projects', columns |-> columns', tasks |-> tasks'],
                        calls'[Len(calls')])]_vars

\* a task reorder and a column or project reorder are awaiting their responses, the
\* cache holds their orderings, and these are not the ones it held before the calls
C14_Witness ==
    \E i \in DOMAIN calls :
        /\ calls[i].kind = "reorderTasks" /\ calls[i].x.state = "sent"
        /\ calls[i].atCall.tasks # tasks
        /\ HoldsOrdering(Cache, calls[i])
        /\ \E j \in DOMAIN calls :
             /\ calls[j].kind \in {"reorderColumns", "reorderProjects"}
             /\ calls[j].x.state = "sent"
             /\ calls[j].atCall # calls[j].atSend
             /\ HoldsOrdering(Cache, calls[j])

\* the cache holds a column of project p, or a task in a column of project p
CachesDataOf(cache, p) ==
    \/ \E k \in DOMAIN cache.columns : cache.columns[k].project_id = p
    \/ \E k \in DOMAIN cache.tasks :
         \E c \in dbColumns : c.id = cache.tasks[k].column_id /\ c.project_id = p

\* C15: in every state after setCurrentProject(P), from the state the call leaves on
\* (before any fetch response arrives), the cache holds no column and no task of the
\* previously selected project.
C15_SelectDiscards ==
    [][currentProjectId' # currentProjectId
       => ~CachesDataOf([projects |-> projects', columns |-> columns', tasks |-> tasks'],
                        currentProjectId)]_vars

\* both requests of a fetchProjectData call were answered with success
Fetched(c) ==
    /\ c.kind = "fetchProjectData"
    /\ c.x.state = "answered" /\ c.x.success
    /\ c.y.state = "answered" /\ c.y.success

\* C16: no fetch is cancelled or ignored because a newer selection exists: whenever a
\* fetchProjectData call ends with both responses successful, the cached tasks and
\* columns become the ones it fetched, whichever project is selected by then.  (The
\* stale-select race itself is the state C16_Witness.)
C16_NoFetchIgnored ==
    [][\A i \in DOMAIN calls :
         (Ends(i) /\ Fetched(calls[i]))
         => tasks' = calls[i].x.data /\ columns' = calls[i].y.data]_vars

\* setCurrentProject(P1), then setCurrentProject(P2); both fetches succeeded, P1's was
\* delivered last; nothing is in flight, P2 is selected and the cache is P1's
C16_Witness ==
    /\ Len(calls) = 2
    /\ \A i \in DOMAIN calls : calls[i].by = "user" /\ Fetched(calls[i]) /\ calls[i].stage = "done"
    /\ calls[1].arg # calls[2].arg
    /\ currentProjectId = calls[2].arg
    /\ columns # <<>>
    /\ columns \in ColumnListings(DB, calls[1].arg)
    /\ tasks \in TaskListings(DB, calls[1].arg)
    /\ ~CachesDataOf(Cache, currentProjectId)

(***************************************************************************)
(* Ownership of projects.                                                  *)
(***************************************************************************)
\* the request renames or deletes a project that another user owns
OnForeignProject ==
    /\ req.op \in {"deleteProject", "updateProject"}
    /\ \E p \in dbBefore.projects : p.id = req.id /\ p.user_id # req.user

\* C21: a project rename or delete requested by a user who does not own the project is
\* rejected, and the project, its columns and their tasks (every table, in fact) are
\* left unchanged in the store.
C21_ProjectOwnership ==
    OnForeignProject => ~res.success /\ DB = dbBefore

\* a delete of another user's project, which has columns and tasks, was rejected
C21_Witness ==
    /\ OnForeignProject
    /\ req.op = "deleteProject"
    /\ ~res.success
    /\ \E c \in dbColumns : c.project_id = req.id /\ \E t \in dbTasks : t.column_id = c.id

\* C22: a reorderProjects request by user U changes the order_index only of projects
\* owned by U: every project of another user is left as it was, whatever ids U submits.
C22_ReorderOwnerScoped ==
    req.op = "reorderProjects"
    => \A p \in dbBefore.projects : p.user_id # req.user => p \in dbProjects

\* a successful reorder that names another user's project at a position that is not
\* its order_index, and that moved a project of the caller
C22_Witness ==
    /\ req.op = "reorderProjects" /\ req.isArray /\ res.success
    /\ \E k \in DOMAIN req.items : \E p \in dbBefore.projects :
         p.id = req.items[k] /\ p.user_id # req.user /\ p.order_index # k - 1
    /\ \E p \in dbBefore.projects : p.user_id = req.user /\ p \notin dbProjects

(***************************************************************************)
(* Indices after a reorder and after a create; listing order.              *)
(***************************************************************************)
\* the containers a reorder request addresses, as sets of rows of db: the caller's
\* projects, the columns of the project of a named column, the tasks of the column
\* a named task is in
AffectedContainers(db) ==
    IF req.op = "reorderProjects"
    THEN {{p \in db.projects : p.user_id = req.user} : k \in {j \in Entries : ~Misses(j)}}
    ELSE IF req.op = "reorderColumns"
    THEN {{c \in db.columns : c.project_id = r.project_id} :
            r \in {c \in db.columns : \E k \in Entries : EntryId(k) = c.id}}
    ELSE {{t \in db.tasks : t.column_id = r.column_id} :
            r \in {t \in db.tasks : \E k \in Entries : EntryId(k) = t.id}}

DenseContainer(rows) ==
    /\ {r.order_index : r \in rows} = 0..(Cardinality(rows) - 1)
    /\ \A a, b \in rows : a.order_index = b.order_index => a = b

\* C25: after any successful reorder operation the persisted order_index values of the
\* affected container are exactly 0..N-1, without duplicate or gap, N being the number
\* of entities the store holds in it, whatever indices or ids the caller supplied.
C25_ReorderDense ==
    Reordered /\ res.success => \A rows \in AffectedContainers(DB) : DenseContainer(rows)

\* the row a create request inserted, and the lists its siblings are returned in
Created == req.op \in {"createProject", "createColumn", "createTask"} /\ res.success
SiblingListings ==
    IF req.op = "createProject" THEN ProjectListings(DB, req.user)
    ELSE IF req.op = "createColumn" THEN ColumnListings(DB, req.id)
    ELSE {SelectSeq(l, LAMBDA t : t.column_id = req.id) :
            l \in UNION {TaskListings(DB, c.project_id) : c \in {d \in dbColumns : d.id = req.id}}}

\* C26: a newly created project, column or task is returned as the last element among
\* its siblings by the corresponding list operation, in every reachable store state.
C26_CreateAppends ==
    Created => \A l \in SiblingListings : l # <<>> /\ l[Len(l)].id = res.data[1].id

\* C27: creating a project for an owner who has N projects assigns the new project
\* order_index = N, in every reachable store state.
C27_ProjectIndexIsCount ==
    req.op = "createProject" /\ res.success
    => res.data[1].order_index =
          Cardinality({p \in dbBefore.projects : p.user_id = req.user})

\* x is listed before y: smaller order_index, then earlier creation, then smaller id
\* (column rows carry no creation time here: their ids follow their creation)
CreatedOf(x) == IF "created_at" \in DOMAIN x THEN x.created_at ELSE x.id
ListedBefore(x, y) ==
    \/ x.order_index < y.order_index
    \/ x.order_index = y.order_index /\ CreatedOf(x) < CreatedOf(y)
    \/ x.order_index = y.order_index /\ CreatedOf(x) = CreatedOf(y) /\ x.id < y.id

\* C28: the list operations for the projects of a user, the columns of a project and
\* the tasks of a project return entities sorted by order_index ascending, entities
\* with equal order_index in ascending creation order (created_at, then id).
C28_ListingOrder ==
    req.op \in {"listProjects", "listColumns", "listTasks"} /\ res.success
    => \A i, j \in DOMAIN res.data :
          i < j => ListedBefore(res.data[i], res.data[j])

(***************************************************************************)
(* Two browser tabs of one user.  Both load the same project; each then    *)
(* makes one task drag on the view it loaded, without refetching, and the  *)
(* server handles the two POST /api/tasks/reorder requests in some order.  *)
(* `tasks` is the view both tabs loaded; calls[i].arg is the tab.          *)
(***************************************************************************)
\* browser tabs
Tabs == 2

\* the tasks of the loaded project: all in column 1 but the last, which is in column 2
TabTask(i) ==
    TaskRow(i, IF i = MaxTasks THEN 2 ELSE 1, IF i = MaxTasks THEN 0 ELSE i - 1,
            CreatedAt(i, TRUE))

TabsInit ==
    /\ dbProjects = CreatedProjects(TRUE)
    /\ dbColumns = SeededColumns
    /\ dbTasks = {TabTask(i) : i \in TaskIds}
    /\ dbAttachments = {}
    /\ uploads = {}
    /\ seq = [projects |-> MaxRows, columns |-> DefaultColumns * (MaxRows - 1),
              tasks |-> MaxTasks, attachments |-> 0]
    /\ now = MaxTasks + 1
    /\ req = NoRequest
    /\ res = Response(200, <<>>)
    /\ dbBefore = DB
    /\ currentProjectId = 2
    /\ projects \in ProjectListings(DB, 1)
    /\ columns \in ColumnListings(DB, currentProjectId)
    /\ tasks \in TaskListings(DB, currentProjectId)
    /\ error = Null
    /\ attachments = <<>>
    /\ calls = <<>>
    /\ active = NoDrag
    /\ activeId = Null
    /\ activeType = NoType
    /\ ev = [type |-> "none", active |-> NoDrag, over |-> NoTarget]
    /\ before = Cache
    /\ emitted = <<>>

\* a tab that has made no drag yet drags a task of its view: handleDragEnd and
\* reorderTasks to its await
TabDrop ==
    /\ \E tab \in 1..Tabs, act \in {d \in Rendered : StartsWith(d, "task-")},
          over \in Rendered \cup {NoTarget} :
         LET out == HandleDragEnd(act, over)
             sent == [projects |-> out.projects, columns |-> out.columns, tasks |-> out.tasks]
         IN  /\ \A i \in DOMAIN calls : calls[i].arg # tab
             /\ out.emitted # <<>>
             /\ calls' = Append(calls, Call(out.emitted[1].op, tab, out.emitted[1].payload,
                                            <<>>, Cache, sent, "user"))
    /\ UNCHANGED <<projects, columns, tasks, currentProjectId, error>>
    /\ UNCHANGED <<active, activeId, activeType, ev, before, emitted, attachments>>
    /\ UNCHANGED storeVars

\* the server handles the request of one tab: POST /api/tasks/reorder
TabServe ==
    /\ \E i \in DOMAIN calls :
         /\ calls[i].x.state = "sent"
         /\ Reorder("reorderTasks", "tasks", Null, TRUE, calls[i].items)
         /\ calls' = [calls EXCEPT ![i].x = Answer(res')]
    /\ UNCHANGED <<seq, now>>
    /\ UNCHANGED <<projects, columns, tasks, currentProjectId, error>>
    /\ UNCHANGED <<active, activeId, activeType, ev, before, emitted, attachments>>

TabsNext == TabDrop \/ TabServe

SpecTabs == TabsInit /\ [][TabsNext]_vars

\* every tab's batch was handled with success, and all batches address column c
AllCompletedOn(c) ==
    /\ Len(calls) = Tabs
    /\ \A i \in DOMAIN calls :
         /\ calls[i].x.state = "answered" /\ calls[i].x.success
         /\ \A k \in DOMAIN calls[i].items : calls[i].items[k].column_id = c

\* C24: when two reorder batches addressing the same container both complete, the
\* container's final persisted order (all its current members sorted by order_index)
\* is exactly the order written by the batch whose transaction completed last.
C24_LastWriterWins ==
    \A c \in {d.id : d \in dbColumns} :
        AllCompletedOn(c)
        => \A l \in ColumnTaskListings(DB, c) : Ids(l) = Ids(SortByOrderIndex(req.items))

(***************************************************************************)
(* Attachments: uploadAttachment and deleteAttachment of the client store, *)
(* over the attachments routes.  For a deleteAttachment call, items is the *)
(* one-element list of the attachment id.                                  *)
(***************************************************************************)
\* uploads and deletions the user makes in one behaviour
MaxAttachmentOps == 3

\* uploadAttachment(taskId, file) to its await, from the dialog of a cached task
UploadAttachment ==
    /\ UserOps < MaxAttachmentOps
    /\ \E taskId \in {tasks[i].id : i \in DOMAIN tasks} :
         calls' = Append(calls, Call("uploadAttachment", taskId, <<>>, <<>>, Cache, Cache, "user"))
    /\ UNCHANGED <<projects, columns, tasks, currentProjectId, error>>
    /\ UNCHANGED <<active, activeId, activeType, ev, before, emitted, attachments>>
    /\ UNCHANGED storeVars

\* deleteAttachment(id, taskId) to its await, from the list of a task's attachments
\* in the dialog
DeleteAttachment ==
    /\ UserOps < MaxAttachmentOps
    /\ \E taskId \in DOMAIN attachments :
         \E k \in DOMAIN attachments[taskId] :
            calls' = Append(calls, Call("deleteAttachment", taskId, <<attachments[taskId][k].id>>,
                                        <<>>, Cache, Cache, "user"))
    /\ UNCHANGED <<projects, columns, tasks, currentProjectId, error>>
    /\ UNCHANGED <<active, activeId, activeType, ev, before, emitted, attachments>>
    /\ UNCHANGED storeVars

\* filename: Date.now() + '-' + random + extension, a name no stored file has
FreshName(db, files) ==
    LET used == {f.name : f \in files} \cup {r.file_path : r \in db.attachments} \cup {0}
    IN  1 + CHOOSE n \in used : \A m \in used : m <= n

\* POST /api/tasks/:taskId/attachments, behind upload.single('file'): 400 when no file
\* arrived; else multer has written the file, and the answer is 500 when the insert
\* throws (FOREIGN KEY (task_id) REFERENCES tasks(id)), else 201 with the row
UploadResponses(db, files, taskId) ==
    LET filename == FreshName(db, files)
        written == files \cup {WrittenFile(db, taskId, filename)}
        row == AttachmentRow(seq.attachments + 1, taskId, filename)
    IN  {[db |-> db, uploads |-> files, res |-> Response(400, <<>>)],
         [db |-> db, uploads |-> written, res |-> Response(500, <<>>)]}
        \cup
        (IF HasRow(db.tasks, taskId)
         THEN {[db |-> [db EXCEPT !.attachments = @ \cup {row}], uploads |-> written,
                res |-> Response(201, <<row>>)]}
         ELSE {})

\* mutant of StoredPath: the file is looked up where the upload wrote it
StoredPathOfTask(db, attachment) == WrittenFile(db, attachment.task_id, attachment.file_path)

\* path.join(uploadDir, attachment.file_path)
StoredPath(db, attachment) == [dir |-> UploadDir, name |-> attachment.file_path]

\* DELETE /api/attachments/:id: 404 when no row has the id, else the row is deleted,
\* and the file at its path, if there is one (fs.existsSync, fs.unlinkSync)
DeleteResponse(db, files, id) ==
    IF ~HasRow(db.attachments, id)
    THEN {[db |-> db, uploads |-> files, res |-> Response(404, <<>>)]}
    ELSE LET attachment == CHOOSE r \in db.attachments : r.id = id
         IN  {[db |-> [db EXCEPT !.attachments = {r \in @ : r.id # id}],
               uploads |-> files \ {StoredPath(db, attachment)},
               res |-> Response(200, <<>>)]}

\* the server handles an attachment request that was sent
ServeAttachment ==
    /\ \E i \in DOMAIN calls :
         /\ calls[i].stage = "awaiting"
         /\ calls[i].x.state = "sent"
         /\ \E o \in {[db |-> r.db, uploads |-> uploads, res |-> r.res] :
                         r \in AuthenticateToken(DB)}
                     \cup (IF calls[i].kind = "uploadAttachment"
                           THEN UploadResponses(DB, uploads, calls[i].arg)
                           ELSE DeleteResponse(DB, uploads, calls[i].items[1])) :
              /\ dbAttachments' = o.db.attachments
              /\ uploads' = o.uploads
              /\ seq' = [seq EXCEPT !.attachments =
                            IF o.res.status = 201 THEN @ + 1 ELSE @]
              /\ calls' = [calls EXCEPT ![i].x = Answer(o.res)]
    /\ UNCHANGED <<dbProjects, dbColumns, dbTasks, now, req, res, dbBefore>>
    /\ UNCHANGED <<projects, columns, tasks, currentProjectId, error>>
    /\ UNCHANGED <<active, activeId, activeType, ev, before, emitted, attachments>>

\* SELECT * FROM attachments WHERE task_id = ? ORDER BY created_at DESC: the newest
\* first (the ids grow with the time of the upload)
AttachmentListing(db, taskId) ==
    CHOOSE a \in Arrangements({r \in db.attachments : r.task_id = taskId}) :
        \A i, j \in DOMAIN a : i < j => a[i].id > a[j].id

\* a signed-in client that has loaded one of its projects and has opened the dialog of
\* each of its tasks (fetchAttachments), over a store whose tasks hold some attachments
AttachInit ==
    /\ dbProjects = CreatedProjects(TRUE)
    /\ dbColumns = SeededColumns \cup {AddedColumn}
    /\ dbTasks = {TaskRow(i, ColumnOfTask(i), 0, CreatedAt(i, TRUE)) : i \in RowIds}
    /\ dbAttachments \in Tables(RowIds, RowIds, LAMBDA i, v : AttachmentRow(i, v, i))
    /\ uploads = WrittenFiles(DB)
    /\ seq = [projects |-> MaxRows, columns |-> AddedColumn.id, tasks |-> MaxRows,
              attachments |-> MaxRows]
    /\ now = MaxRows + 1
    /\ req = NoRequest
    /\ res = Response(200, <<>>)
    /\ dbBefore = DB
    /\ currentProjectId \in RowIds
    /\ projects \in ProjectListings(DB, 1)
    /\ columns \in ColumnListings(DB, currentProjectId)
    /\ tasks \in TaskListings(DB, currentProjectId)
    /\ error = Null
    /\ attachments = [taskId \in {tasks[i].id : i \in DOMAIN tasks} |->
                         AttachmentListing(DB, taskId)]
    /\ calls = <<>>
    /\ active = NoDrag
    /\ activeId = Null
    /\ activeType = NoType
    /\ ev = [type |-> "none", active |-> NoDrag, over |-> NoTarget]
    /\ before = Cache
    /\ emitted = <<>>

AttachNext == UploadAttachment \/ DeleteAttachment \/ ServeAttachment \/ Lose \/ Settle

SpecAttach == AttachInit /\ [][AttachNext]_vars

\* the cached attachment_count of task taskId in a task list
CountOf(ts, taskId) == Get(ts, taskId).attachment_count
\* apart from the attachment_count of task taskId, the list is unchanged
OnlyCountChanged(taskId) ==
    /\ Ids(tasks') = Ids(tasks)
    /\ \A i \in DOMAIN tasks :
         tasks'[i] = [tasks[i] EXCEPT !.attachment_count =
                         IF tasks[i].id = taskId THEN tasks'[i].attachment_count ELSE @]

\* C23: a successful upload increases the task's cached attachment_count by exactly 1,
\* a failed upload (error status, or request that got no answer) leaves the cached
\* tasks unchanged, and a deleteAttachment whose request completed decreases it by 1
\* but never below 0 (one whose request got no answer deletes nothing and leaves the
\* count); the cached attachment_count of every task is >= 0 in every reachable state.
C23_AttachmentCount ==
    /\ [](\A i \in DOMAIN tasks : tasks[i].attachment_count >= 0)
    /\ [][\A i \in DOMAIN calls :
            LET c == calls[i] IN
            /\ (c.kind = "uploadAttachment" /\ Ends(i) /\ Ok(c.x) /\ ~Rejected(c))
               => /\ OnlyCountChanged(c.arg)
                  /\ CountOf(tasks', c.arg) = CountOf(tasks, c.arg) + 1
            /\ (c.kind = "uploadAttachment" /\ Ends(i) /\ ~(Ok(c.x) /\ ~Rejected(c)))
               => tasks' = tasks
            /\ (c.kind = "deleteAttachment" /\ Ends(i) /\ Rejected(c))
               => tasks' = tasks
            /\ (c.kind = "deleteAttachment" /\ Ends(i) /\ ~Rejected(c))
               => /\ OnlyCountChanged(c.arg)
                  /\ CountOf(tasks', c.arg) =
                        (IF CountOf(tasks, c.arg) = 0 THEN 0 ELSE CountOf(tasks, c.arg) - 1)]_vars

\* an upload succeeded and the count went up; then its attachment was deleted twice
\* (both requests answered), and the count is 0, not -1
C23_Witness ==
    /\ Len(calls) = 3
    /\ \A i \in DOMAIN calls : calls[i].stage = "done" /\ calls[i].arg = calls[1].arg
    /\ calls[1].kind = "uploadAttachment" /\ Ok(calls[1].x)
    /\ CountOf(calls[1].atCall.tasks, calls[1].arg) = 0
    /\ CountOf(calls[2].atCall.tasks, calls[1].arg) = 1
    /\ \A i \in {2, 3} : calls[i].kind = "deleteAttachment" /\ calls[i].x.state = "answered"
    /\ CountOf(tasks, calls[1].arg) = 0

(***************************************************************************)
(* Drop-target resolution: collisionDetectionStrategy of Home, over the    *)
(* collision algorithms of the DndContext.  The droppable rectangles are   *)
(* laid out along one axis (a slice through the page: all rectangles have  *)
(* the same extent on the other axis), so that the corner distances and    *)
(* the intersection ratios are exact in integers.                          *)
(***************************************************************************)
\* the largest layout coordinate
GridMax == 11

Rects == {r \in [lo : 0..GridMax, hi : 0..GridMax] : r.lo < r.hi}
Apart(r, s) == r.hi < s.lo \/ s.hi < r.lo
\* a card lies inside its column, below the header and above the padding
Within(r, s) == s.lo < r.lo /\ r.hi < s.hi
Extent(r) == r.hi - r.lo
Distance(a, b) == IF a < b THEN b - a ELSE a - b
Overlap(r, s) ==
    (IF r.hi < s.hi THEN r.hi ELSE s.hi) - (IF r.lo > s.lo THEN r.lo ELSE s.lo)
\* KeyboardSensor: a gesture without pointer coordinates
NoPointer == -1

\* collisions.sort(...): ascending by value num/den, stable
RECURSIVE InsertCollision(_, _)
InsertCollision(sorted, x) ==
    IF sorted = <<>> THEN <<x>>
    ELSE LET last == sorted[Len(sorted)]
         IN  IF x.num * last.den < last.num * x.den
             THEN Append(InsertCollision(SubSeq(sorted, 1, Len(sorted) - 1), x), last)
             ELSE Append(sorted, x)

RECURSIVE SortCollisions(_)
SortCollisions(arr) ==
    IF arr = <<>> THEN <<>>
    ELSE InsertCollision(SortCollisions(SubSeq(arr, 1, Len(arr) - 1)), arr[Len(arr)])

Collision(container, num, den) == [id |-> container.id, num |-> num, den |-> den]

\* pointerWithin: the droppables whose rectangle holds the pointer, nearest corners first
pointerWithin(args) ==
    IF args.pointerCoordinates = NoPointer THEN <<>>
    ELSE LET p == args.pointerCoordinates
             hits == SelectSeq(args.droppableContainers,
                               LAMBDA d : d.rect.lo <= p /\ p <= d.rect.hi)
         IN  SortCollisions([i \in 1..Len(hits) |->
                Collision(hits[i], Distance(p, hits[i].rect.lo) + Distance(p, hits[i].rect.hi), 1)])

\* rectIntersection: the droppables that the dragged rectangle overlaps, largest
\* intersection ratio first
rectIntersection(args) ==
    LET hits == SelectSeq(args.droppableContainers,
                          LAMBDA d : Overlap(d.rect, args.collisionRect) > 0)
    IN  SortCollisions([i \in 1..Len(hits) |->
            LET o == Overlap(hits[i].rect, args.collisionRect)
            IN  Collision(hits[i], 0 - o,
                          Extent(hits[i].rect) + Extent(args.collisionRect) - o)])

\* closestCorners: every droppable, smallest distance between its corners and the
\* corners of the dragged rectangle first
closestCorners(args) ==
    LET all == args.droppableContainers
    IN  SortCollisions([i \in 1..Len(all) |->
            Collision(all[i], Distance(all[i].rect.lo, args.collisionRect.lo)
                              + Distance(all[i].rect.hi, args.collisionRect.hi), 1)])

\* collisions.find(c => String(c.id).startsWith(prefix)): the matches, first one first
Find(collisions, prefix) == SelectSeq(collisions, LAMBDA c : StartsWith(c.id, prefix))

\* mutant of collisionDetectionStrategy: closestCorners for every drag
closestCornersAlways(type, args) == closestCorners(args)

collisionDetectionStrategy(type, args) ==
    IF type = "Project" \/ type = "Column" THEN closestCorners(args)
    ELSE LET pointerCollisions == pointerWithin(args)
             overTask == Find(pointerCollisions, "task-")
             overColumn == Find(pointerCollisions, "col-")
             overColumnRect == Find(rectIntersection(args), "col-")
         IN  IF pointerCollisions # <<>> /\ overTask # <<>> THEN closestCorners(args)
             ELSE IF pointerCollisions # <<>> /\ overColumn # <<>>
                  THEN <<[id |-> overColumn[1].id]>>
             ELSE IF overColumnRect # <<>> THEN <<[id |-> overColumnRect[1].id]>>
             ELSE closestCorners(args)

\* the droppables of the rendered page: a project tab, two columns, and the two
\* cards of the first column; in the order of rendering, and in the reverse order
DroppableIds == <<DragId("proj-", 1), DragId("col-", 1), DragId("col-", 2),
                  DragId("task-", 1), DragId("task-", 2)>>
Reversed(a) == [i \in 1..Len(a) |-> a[Len(a) + 1 - i]]

\* the rectangles the page can give them: tab and columns apart, the cards inside
\* the first column and apart
Layouts ==
    UNION {
        { <<p, c[1], c[2], t[1], t[2]>> :
            p \in {r \in Rects : Apart(r, c[1]) /\ Apart(r, c[2])},
            t \in {u \in Rects \X Rects :
                     Within(u[1], c[1]) /\ Within(u[2], c[1]) /\ u[1].hi < u[2].lo} }
        : c \in {d \in Rects \X Rects : d[1].hi < d[2].lo} }

Containers(layout) == [i \in 1..Len(DroppableIds) |-> [id |-> DroppableIds[i], rect |-> layout[i]]]

\* a drag is in progress, as handleDragStart leaves the component
CollisionInit ==
    /\ projects = <<[id |-> 1]>>
    /\ columns = [i \in 1..2 |-> [id |-> i, project_id |-> 1, order_index |-> i - 1]]
    /\ tasks = [i \in 1..2 |-> [id |-> i, column_id |-> 1, order_index |-> i - 1]]
    /\ \E i \in DOMAIN DroppableIds :
         /\ active = DroppableIds[i]
         /\ activeType = (IF StartsWith(active, "col-") THEN "Column"
                          ELSE IF StartsWith(active, "task-") THEN "Task" ELSE "Project")
         /\ activeId = IdNumber(active)
         /\ ev = [type |-> "dragStart", active |-> active, over |-> NoTarget]
    /\ before = Cache
    /\ emitted = <<>>
    /\ currentProjectId = 1
    /\ error = Null
    /\ attachments = <<>>
    /\ calls = <<>>
    /\ StoreIdle

\* the DndContext measures the droppables and the dragged rectangle (the size of the
\* dragged item, under the pointer if there is one) and resolves the target.  The
\* strategy keeps no memory of earlier detections: a behaviour holds one.
DetectCollision ==
    /\ active # NoDrag
    /\ ev.type = "dragStart"
    /\ \E layout \in Layouts, reverse \in BOOLEAN, rect \in Rects,
          pointer \in (0..GridMax) \cup {NoPointer} :
         LET containers == Containers(layout)
             own == CHOOSE d \in {containers[i] : i \in DOMAIN containers} : d.id = active
             args == [droppableContainers |->
                          IF reverse THEN Reversed(containers) ELSE containers,
                      collisionRect |-> rect,
                      pointerCoordinates |-> pointer]
             collisions == collisionDetectionStrategy(activeType, args)
         IN  /\ Extent(rect) = Extent(own.rect)
             /\ pointer # NoPointer => rect.lo <= pointer /\ pointer <= rect.hi
             /\ ev' = [type |-> "dragMove", active |-> active,
                       over |-> IF collisions = <<>> THEN NoTarget ELSE collisions[1].id,
                       args |-> args,
                       collisions |-> [i \in 1..Len(collisions) |-> collisions[i].id]]
    /\ UNCHANGED <<projects, columns, tasks, active, activeId, activeType, before, emitted>>
    /\ UNCHANGED <<asyncVars, storeVars>>

CollisionNext == DetectCollision

SpecCollision == CollisionInit /\ [][CollisionNext]_vars

\* the last event was a collision detection for a dragged card
TaskMoved == ev.type = "dragMove" /\ activeType = "Task"
\* the droppables of the given kind that hold the pointer
PointerOver(prefix) ==
    {d \in {ev.args.droppableContainers[i] : i \in DOMAIN ev.args.droppableContainers} :
        /\ StartsWith(d.id, prefix)
        /\ ev.args.pointerCoordinates # NoPointer
        /\ d.rect.lo <= ev.args.pointerCoordinates
        /\ ev.args.pointerCoordinates <= d.rect.hi}
PointerOverNothing ==
    PointerOver("task-") \cup PointerOver("col-") \cup PointerOver("proj-") = {}
\* the columns that the dragged rectangle overlaps
RectOverColumns ==
    {d \in {ev.args.droppableContainers[i] : i \in DOMAIN ev.args.droppableContainers} :
        StartsWith(d.id, "col-") /\ Overlap(d.rect, ev.args.collisionRect) > 0}
\* d is the droppable nearest to the dragged rectangle by corners, strictly
NearestByCorners(d) ==
    \A o \in {ev.args.droppableContainers[i] : i \in DOMAIN ev.args.droppableContainers} :
        o.id # d.id
        => Distance(d.rect.lo, ev.args.collisionRect.lo) + Distance(d.rect.hi, ev.args.collisionRect.hi)
           < Distance(o.rect.lo, ev.args.collisionRect.lo) + Distance(o.rect.hi, ev.args.collisionRect.hi)

\* C29: while a Task is dragged, when the pointer is inside a Column and inside no
\* Task, the resolved collisions are exactly that Column, whichever droppable is
\* nearest by corners; when the pointer is inside nothing (or there is no pointer)
\* and the dragged rectangle overlaps a Column, they are exactly one such Column,
\* one with the largest intersection ratio.
C29_ColumnResolution ==
    TaskMoved =>
        /\ (PointerOver("col-") # {} /\ PointerOver("task-") = {})
           => \E d \in PointerOver("col-") :
                 PointerOver("col-") = {d} /\ ev.collisions = <<d.id>>
        /\ (PointerOverNothing /\ RectOverColumns # {})
           => \E d \in RectOverColumns :
                 /\ ev.collisions = <<d.id>>
                 /\ \A o \in RectOverColumns :
                      Overlap(o.rect, ev.args.collisionRect)
                        * (Extent(d.rect) + Extent(ev.args.collisionRect)
                           - Overlap(d.rect, ev.args.collisionRect))
                      <= Overlap(d.rect, ev.args.collisionRect)
                           * (Extent(o.rect) + Extent(ev.args.collisionRect)
                              - Overlap(o.rect, ev.args.collisionRect))

\* the pointer is in the empty space of the first column while the project tab is
\* the nearest droppable by corners: the collisions are the column alone
C29_Witness ==
    /\ TaskMoved
    /\ PointerOver("col-") # {} /\ PointerOver("task-") = {}
    /\ \E d \in {ev.args.droppableContainers[i] : i \in DOMAIN ev.args.droppableContainers} :
         StartsWith(d.id, "proj-") /\ NearestByCorners(d)
    /\ ev.collisions = <<DragId("col-", 1)>>

\* C30: while a Task is dragged and the pointer is inside another Task, the resolved
\* target is a Task.
C30_OverTaskResolvesTask ==
    (TaskMoved /\ \E d \in PointerOver("task-") : d.id # active)
    => StartsWith(ev.over, "task-")

(***************************************************************************)
(* Attachments: the stored bytes, and the cache after a refused delete.    *)
(***************************************************************************)
\* the server answers, in this step, the deleteAttachment request of call i
DeleteAnswered(i) ==
    /\ calls[i].kind = "deleteAttachment"
    /\ calls[i].x.state = "sent"
    /\ calls'[i].x.state = "answered"

\* C31: when a deleteAttachment request for a stored attachment (one that was uploaded
\* to an existing task) is answered with success, the file that the upload wrote is no
\* longer in the upload directory.
C31_DeleteRemovesFile ==
    [][\A i \in DOMAIN calls :
         (DeleteAnswered(i) /\ calls'[i].x.success)
         => \A r \in dbAttachments :
              r.id = calls[i].items[1]
              => WrittenFile(DB, r.task_id, r.file_path) \notin uploads']_vars

\* C38: when a deleteAttachment call ends whose request was answered with an error
\* status, the cached attachment lists and the cached tasks (their attachment_count)
\* are as before.
C38_RefusedDeleteKeepsCache ==
    [][\A i \in DOMAIN calls :
         (calls[i].kind = "deleteAttachment" /\ Ends(i)
            /\ calls[i].x.state = "answered" /\ ~Ok(calls[i].x))
         => attachments' = attachments /\ tasks' = tasks]_vars

(***************************************************************************)
(* The task set of the cache over a drop.                                  *)
(***************************************************************************)
\* the number of entries of the list that carry the id
Occurrences(arr, id) == Cardinality({i \in 1..Len(arr) : arr[i].id = id})

\* C32: after a task drop the optimistic task list holds exactly the task ids that the
\* cache held before the drop, each once, and every task that is neither in the
\* destination column nor the dragged one is in it with all fields unchanged.
C32_DropPreservesTaskSet ==
    TaskDropped =>
        /\ Len(tasks) = Len(before.tasks)
        /\ \A i \in 1..Len(before.tasks) :
              /\ Occurrences(tasks, before.tasks[i].id) = 1
              /\ (before.tasks[i].column_id # Destination /\ before.tasks[i].id # Dragged)
                 => \E j \in 1..Len(tasks) : tasks[j] = before.tasks[i]
        /\ \A j \in 1..Len(tasks) : Has(before.tasks, tasks[j].id)

\* C32 witness: a task moved to another column that held a task, while a third column
\* held a task
C32_Witness ==
    /\ TaskDropped
    /\ Origin # Destination
    /\ Len(before.tasks) = 3
    /\ \E i, j \in 1..Len(before.tasks) :
          /\ before.tasks[i].column_id = Destination
          /\ before.tasks[j].column_id \notin {Origin, Destination}
          /\ \E k \in 1..Len(tasks) : tasks[k] = before.tasks[j]
    /\ Get(tasks, Dragged).column_id = Destination

(***************************************************************************)
(* Convergence of the cache after overlapping calls.                       *)
(***************************************************************************)
\* every call has run to its end and every request was answered with success
AllDelivered ==
    \A i \in DOMAIN calls :
        /\ calls[i].stage = "done"
        /\ calls[i].x.state = "answered" /\ calls[i].x.success
        /\ calls[i].kind = "fetchProjectData"
           => calls[i].y.state = "answered" /\ calls[i].y.success

\* the user made several reorders of the given kind, and nothing else
SeveralReorders(kind) ==
    /\ UserOps >= 2
    /\ \A i \in DOMAIN calls : calls[i].by = "user" => calls[i].kind = kind

\* C33: when the client issued several task reorders on the current project and every
\* reorder request and every follow-up fetch has been answered and handled, in
\* whatever order, the cached tasks are the store's tasks of the current project.
C33_TaskReordersConverge ==
    (SeveralReorders("reorderTasks") /\ AllDelivered)
    => tasks \in TaskListings(DB, currentProjectId)

\* C34: when an updateTask call fails, the rollback changes no cached task other than
\* the one the call targets: every other task that the cache holds at that moment
\* (as a fetch response, a reorder or another updateTask left it) is kept as it is,
\* and no task is added or removed.
C34_RollbackTouchesTargetOnly ==
    [][\A i \in DOMAIN calls :
         (calls[i].kind = "updateTask" /\ Ends(i) /\ FailedCall(calls[i]))
         => /\ Ids(tasks') = Ids(tasks)
            /\ \A k \in DOMAIN tasks :
                 tasks[k].id # calls[i].arg => tasks'[k] = tasks[k]]_vars

\* every call has run to its end, and none was refused by the middleware (which logs
\* the client out)
AllResolved ==
    \A i \in DOMAIN calls : calls[i].stage = "done" /\ ~AuthRefused(calls[i])

\* C35: when the client made several reorderProjects calls, some of which may have
\* failed, and all of them have resolved, the cached projects are in the order the
\* store persists (the caller's projects by order_index).
C35_ProjectOrderConverges ==
    (SeveralReorders("reorderProjects") /\ AllResolved)
    => \E l \in ProjectListings(DB, 1) : Ids(projects) = Ids(l)

(***************************************************************************)
(* Deleting a project from the sidebar: deleteProject of the store over    *)
(* DELETE /api/projects/:id, with the fetch it starts.                     *)
(***************************************************************************)
\* projects the user deletes in one behaviour
MaxDeletes == 2

\* handleDelete (confirmed): deleteProject(id) to its await
ClientDeleteProject ==
    /\ UserOps < MaxDeletes
    /\ \E id \in {projects[i].id : i \in DOMAIN projects} :
         calls' = Append(calls, Call("deleteProject", id, <<>>, <<>>, Cache, Cache, "user"))
    /\ error' = Null
    /\ UNCHANGED <<projects, columns, tasks, attachments, currentProjectId>>
    /\ UNCHANGED <<active, activeId, activeType, ev, before, emitted>>
    /\ UNCHANGED storeVars

\* a signed-in client showing its NumProjects projects, one of them selected and
\* loaded: project 2 with its seeded columns, project 1 with the added column, the
\* others without columns
DeleteInit ==
    /\ dbProjects = {ProjectRow(i, i - 1, TRUE) : i \in ProjIds}
    /\ dbColumns = SeededColumns \cup {AddedColumn}
    /\ dbTasks = {TaskRow(i, ColumnOfTask(i), 0, CreatedAt(i, TRUE)) : i \in RowIds}
    /\ dbAttachments = {}
    /\ uploads = {}
    /\ seq = [projects |-> NumProjects, columns |-> AddedColumn.id, tasks |-> MaxRows,
              attachments |-> 0]
    /\ now = NumProjects + 1
    /\ req = NoRequest
    /\ res = Response(200, <<>>)
    /\ dbBefore = DB
    /\ currentProjectId \in ProjIds
    /\ projects \in ProjectListings(DB, 1)
    /\ columns \in ColumnListings(DB, currentProjectId)
    /\ tasks \in TaskListings(DB, currentProjectId)
    /\ error = Null
    /\ attachments = <<>>
    /\ calls = <<>>
    /\ active = NoDrag
    /\ activeId = Null
    /\ activeType = NoType
    /\ ev = [type |-> "none", active |-> NoDrag, over |-> NoTarget]
    /\ before = Cache
    /\ emitted = <<>>

DeleteNext == ClientDeleteProject \/ Serve \/ Lose \/ Settle

SpecDelete == DeleteInit /\ [][DeleteNext]_vars

\* C36: when a deleteProject call succeeds for a project other than the selected one,
\* currentProjectId and the cached columns and tasks stay as they are; when it
\* succeeds for the selected project, the selection moves to the first project left,
\* or to none with empty columns and tasks.
C36_DeleteKeepsSelection ==
    [][\A i \in DOMAIN calls :
         (calls[i].kind = "deleteProject" /\ Ends(i) /\ ~Rejected(calls[i])
            /\ calls[i].x.success)
         => IF calls[i].arg # currentProjectId
            THEN /\ currentProjectId' = currentProjectId
                 /\ columns' = columns /\ tasks' = tasks
            ELSE IF \E k \in DOMAIN projects : projects[k].id # calls[i].arg
            THEN currentProjectId' = SelectSeq(projects, LAMBDA p : p.id # calls[i].arg)[1].id
            ELSE currentProjectId' = Null /\ columns' = <<>> /\ tasks' = <<>>]_vars

(***************************************************************************)
(* Sort by priority: handleSortByPriority of KanbanColumn with the         *)
(* reorderTasks it calls, which gets no optimistic list and merges the     *)
(* batch into the cached tasks itself.                                     *)
(***************************************************************************)
\* tasks on the board
MaxSortTasks == 3
\* sorts the user asks for in one behaviour
MaxSorts == 1
SortTaskIds == 1..MaxSortTasks
SortPriorities == {MinPriority, MaxPriority}
\* the columns of project 2 that hold tasks
SortColumns == 1..(DefaultColumns - 1)

\* the tasks prop of a column: tasks.filter(t => t.column_id === column.id).sort(by order_index)
TasksOfColumn(columnId) ==
    SortByOrderIndex(SelectSeq(tasks, LAMBDA t : t.column_id = columnId))

\* [...tasks].sort(...): stable insertion, higher priority first, equal priorities
\* by order_index
RECURSIVE InsertByPriority(_, _)
InsertByPriority(sorted, x) ==
    IF sorted = <<>> THEN <<x>>
    ELSE LET last == sorted[Len(sorted)]
             compare == IF x.priority # last.priority THEN x.priority - last.priority
                        ELSE last.order_index - x.order_index
         IN  IF compare <= 0
             THEN Append(sorted, x)
             ELSE Append(InsertByPriority(SubSeq(sorted, 1, Len(sorted) - 1), x), last)

RECURSIVE SortByPriority(_)
SortByPriority(arr) ==
    IF arr = <<>> THEN <<>>
    ELSE InsertByPriority(SortByPriority(SubSeq(arr, 1, Len(arr) - 1)), arr[Len(arr)])

\* mutant of PriorityUpdates: the tasks are numbered in the order shown
UpdatesAsShown(columnTasks) ==
    [index \in 1..Len(columnTasks) |->
        [id |-> columnTasks[index].id, column_id |-> columnTasks[index].column_id,
         order_index |-> index - 1]]

\* sortedTasks.map((t, index) => ({id, column_id, order_index: index}))
PriorityUpdates(columnTasks) ==
    LET sortedTasks == SortByPriority(columnTasks)
    IN  [index \in 1..Len(sortedTasks) |->
            [id |-> sortedTasks[index].id, column_id |-> sortedTasks[index].column_id,
             order_index |-> index - 1]]

\* reorderTasks(items) without optimisticTasks: the entries are merged into the
\* cached tasks
MergedTasks(items) ==
    [k \in DOMAIN tasks |->
        LET update == SelectSeq(items, LAMBDA i : i.id = tasks[k].id)
        IN  IF update # <<>>
            THEN [tasks[k] EXCEPT !.order_index = update[1].order_index,
                                  !.column_id = update[1].column_id]
            ELSE tasks[k]]

\* the menu entry of a column: handleSortByPriority, and reorderTasks to its await
HandleSortByPriority ==
    /\ UserOps < MaxSorts
    /\ \E columnId \in {columns[i].id : i \in DOMAIN columns} :
         LET updates == PriorityUpdates(TasksOfColumn(columnId))
             updatedTasks == MergedTasks(updates)
         IN  /\ tasks' = updatedTasks
             /\ calls' = Append(calls, Call("reorderTasks", Null, updates, <<>>, Cache,
                                            [Cache EXCEPT !.tasks = updatedTasks], "user"))
             /\ ev' = [type |-> "sortByPriority", active |-> NoDrag, over |-> NoTarget,
                       column |-> columnId]
    /\ UNCHANGED <<projects, columns, currentProjectId, error, attachments>>
    /\ UNCHANGED <<active, activeId, activeType, before, emitted>>
    /\ UNCHANGED storeVars

\* project 2 is shown; its tasks are in the first columns, with any priorities and
\* any order_index values that updates and reorders can have left
SortInit ==
    /\ dbProjects = CreatedProjects(TRUE)
    /\ dbColumns = SeededColumns \cup {AddedColumn}
    /\ \E column_id \in [SortTaskIds -> SortColumns],
          priority \in [SortTaskIds -> SortPriorities],
          order_index \in [SortTaskIds -> 0..(MaxSortTasks - 1)],
          spaced \in BOOLEAN :
         dbTasks = {[TaskRow(i, column_id[i], order_index[i], CreatedAt(i, spaced))
                       EXCEPT !.priority = priority[i]] : i \in SortTaskIds}
    /\ dbAttachments = {}
    /\ uploads = {}
    /\ seq = [projects |-> MaxRows, columns |-> AddedColumn.id, tasks |-> MaxSortTasks,
              attachments |-> 0]
    /\ now = MaxSortTasks + 1
    /\ req = NoRequest
    /\ res = Response(200, <<>>)
    /\ dbBefore = DB
    /\ currentProjectId = 2
    /\ projects \in ProjectListings(DB, 1)
    /\ columns \in ColumnListings(DB, currentProjectId)
    /\ tasks \in TaskListings(DB, currentProjectId)
    /\ error = Null
    /\ attachments = <<>>
    /\ calls = <<>>
    /\ active = NoDrag
    /\ activeId = Null
    /\ activeType = NoType
    /\ ev = [type |-> "none", active |-> NoDrag, over |-> NoTarget]
    /\ before = Cache
    /\ emitted = <<>>

SortNext == HandleSortByPriority \/ Serve \/ Lose \/ Settle

SpecSort == SortInit /\ [][SortNext]_vars

\* the step is a sort of column c that emits the batch items
SortedColumn(c, items) ==
    /\ ev'.type = "sortByPriority" /\ ev'.column = c
    /\ Len(calls') = Len(calls) + 1
    /\ calls'[Len(calls')].kind = "reorderTasks"
    /\ calls'[Len(calls')].items = items

\* C37: a sort by priority of a column emits one entry per task of the column, with
\* order_index 0..N-1 in descending priority and, among equal priorities, in ascending
\* previous order_index, and with the column_id the task had; in the cache only the
\* order_index of that column's tasks changes, to the emitted value.
C37_SortByPriority ==
    [][\A c \in {columns[i].id : i \in DOMAIN columns} :
         SortedColumn(c, calls'[Len(calls')].items)
         => LET items == calls'[Len(calls')].items
                inColumn == {k \in DOMAIN tasks : tasks[k].column_id = c}
            IN  /\ Len(items) = Cardinality(inColumn)
                /\ {items[i].id : i \in DOMAIN items} = {tasks[k].id : k \in inColumn}
                /\ \A i \in DOMAIN items :
                     /\ items[i].order_index = i - 1
                     /\ items[i].column_id = c
                /\ \A i, j \in DOMAIN items :
                     i < j => LET a == Get(tasks, items[i].id)
                                  b == Get(tasks, items[j].id)
                              IN  \/ a.priority > b.priority
                                  \/ /\ a.priority = b.priority
                                     /\ a.order_index <= b.order_index
                /\ DOMAIN tasks' = DOMAIN tasks
                /\ \A k \in DOMAIN tasks :
                     IF k \in inColumn
                     THEN tasks'[k] = [tasks[k] EXCEPT
                                         !.order_index = Get(items, tasks[k].id).order_index]
                     ELSE tasks'[k] = tasks[k]]_vars

\* a sort has moved a task of the highest priority from the end of a column to its
\* start, past a task of the lowest priority, while another column holds a task
C37_Witness ==
    /\ ev.type = "sortByPriority"
    /\ calls # <<>>
    /\ calls[1].x.state = "sent"
    /\ LET was == calls[1].atCall.tasks
           items == calls[1].items
       IN  /\ Len(items) = MaxSortTasks - 1
           /\ Get(was, items[1].id).priority = MaxPriority
           /\ Get(was, items[2].id).priority = MinPriority
           /\ Get(was, items[1].id).order_index > Get(was, items[2].id).order_index
           /\ Get(tasks, items[1].id).order_index = 0
           /\ \E k \in DOMAIN tasks : tasks[k].column_id # ev.column /\ tasks[k] = was[k]

====
